---- MODULE Spec2Model ----
(***************************************************************************)
(* Verification model of the voicemode full-duplex voice engine.           *)
(*                                                                         *)
(*  Part I  : DuplexVoice (src/voice_duplex.py): the inbound receive task  *)
(*            (_receive_audio) interleaved with the main task (speak,      *)
(*            _send_audio, listen) at the main task's await points.        *)
(*  Part II : record_with_vad of LocalAudioTransport and                   *)
(*            LiveKitAudioTransport (src/voice_mode/audio_transport.py).   *)
(*  Part III: the life cycle of a transport (connect, disconnect) and its  *)
(*            operations record, record_with_vad, play and play_streaming, *)
(*            called by one task while another connects and disconnects.   *)
(*  Part IV : the global transport, get_audio_transport and                *)
(*            ensure_connected, called by several tasks.                   *)
(*  Part V  : the voice_approval command                                   *)
(*            (src/voice_mode/cli_commands/voice_approval.py).             *)
(*                                                                         *)
(* asyncio is cooperative: a task runs without interruption between two    *)
(* awaits, so every action below is the code between two suspension points.*)
(***************************************************************************)
EXTENDS Integers, Sequences, FiniteSets, Bags, TLC

\* ------------------------------------------------------------------------
\* Program constants
\* ------------------------------------------------------------------------
SPEECH_THRESHOLD == 200
INTERRUPT_SAMPLES == 4800
CHUNK_SIZE == 480
SLEEP_EVERY_CHUNKS == 10
SILENCE_CHUNKS == 72
MIN_TRANSCRIBE_LEVEL == 50
RESAMPLE_FACTOR == 2
\* audio_queue.get(timeout=0.1) / wait_for(..., timeout=0.1), in ticks of 10 ms
TIMEOUT_TICKS == 10
\* chunk_duration = 0.03, in ticks of 10 ms
CHUNK_TICKS == 3
\* wait_for(queue.get(), timeout=min(remaining, 0.5)), in ticks of 250 ms
RECORD_TIMEOUT_TICKS == 2
\* rtc.AudioSource(24000, 1) of LiveKitAudioTransport.connect
SOURCE_RATE == 24000
\* generate_beep: the default sample rate, and the duration beep asks for (ms)
BEEP_SAMPLE_RATE == 48000
BEEP_DURATION_MS == 150

\* ------------------------------------------------------------------------
\* Bounds of the model
\* ------------------------------------------------------------------------
\* inbound frames handled by _receive_audio in one behaviour
MaxFrames == 3
\* speak calls started in one behaviour
MaxSpeaks == 2

\* Inputs
\* inbound frames: len is the sample count (50 ms or 100 ms at 48 kHz), level is
\* np.abs(samples).mean(): below the transcription floor, exactly at the speech
\* threshold, just above it
FrameKinds == {[len |-> 2400, level |-> 40], [len |-> 2400, level |-> 200],
               [len |-> 2400, level |-> 201], [len |-> 4800, level |-> 201]}
\* len(tts_audio) of the TTS response at 24 kHz
TtsLens == {0, 350, 480}
\* record_with_vad, in clock ticks of 10 ms
MaxDurations == {0, 4, 12}
MinDurations == {0, 2, 6}
SilenceThresholds == {0, 3, 12}
\* chunks put on the queue during one call
MaxChunks == 3

\* frames put on _remote_audio_queue in one behaviour
MaxInbound == 2
\* rtc.Room objects created by connect in one behaviour
MaxConnects == 2
\* record: duration in clock ticks of 250 ms, config.sample_rate in samples
\* per second, len(samples) of an inbound frame
RecordDurations == {0, 1, 3}
SampleRates == {2, 5}
FrameSamples == {1, 2}
\* the Room objects connect can create
Rooms == 1..MaxConnects
\* the remote audio tracks that are subscribed at one time
Tracks == {1, 2}
\* the tasks that call ensure_connected at one time
Callers == {1, 2}
\* play_streaming: number of chunks the generator holds
StreamLens == {0, 1, 2}
\* play and play_streaming: len(samples) of the buffer or of a chunk, and
\* config.sample_rate in Hz
BufferLens == {CHUNK_SIZE, CHUNK_SIZE \div 2}
ConfigRates == {SOURCE_RATE, 2 * SOURCE_RATE}

\* speech_start is None or a clock reading
None == "None"
Set == "set"

VARIABLES
    \* DuplexVoice fields
    audio_buffer, is_speaking, was_interrupted, speech_detected_samples,
    \* main task: position, the caller _send_audio returns to, _send_audio
    \* locals, listen locals, last return value
    pc, caller, samples_len, i, speech_start, ret,
    \* observation of the run (history, not program state)
    arrived, scored, delivered, speaks, run, reached, loudTotal, callFrames,
    prevInterrupted, speakFrames, heard, lastOp, path

duplexVars == <<audio_buffer, is_speaking, was_interrupted, speech_detected_samples,
                pc, caller, samples_len, i, speech_start, ret,
                arrived, scored, delivered, speaks, run, reached, loudTotal,
                callFrames, prevInterrupted, speakFrames, heard, lastOp, path>>

VARIABLES
    \* record_with_vad: which transport, and the arguments of the call
    variant, max_duration, min_duration, silence_threshold, has_callback,
    \* the clock, the chunk queue, and the locals of record_with_vad
    now, queue, vpc, elapsed, wait_start, audio_chunks, speech_detected,
    silence_start, result,
    \* observation of the run (history, not program state)
    produced, stop_reason, graceSeen, speechSeen, span_start, span_len

vadVars == <<variant, max_duration, min_duration, silence_threshold, has_callback,
             now, queue, vpc, elapsed, wait_start, audio_chunks, speech_detected,
             silence_start, result, produced, stop_reason, graceSeen, speechSeen,
             span_start, span_len>>

VARIABLES
    \* which transport class the instance is
    transport_type,
    \* its fields; joined is the set of Room objects joined to the server and
    \* rooms_made the number of Room objects created so far
    connected, room, audio_source, audio_track, joined, rooms_made,
    \* the task that calls connect and disconnect: position, last outcome
    cpc, ctl_result,
    \* _remote_audio_queue and the number of frames put on it so far
    remote_audio_queue, frames_in,
    \* the task that calls the operations: position, operation, outcome;
    \* call_connected is _connected as the call started, effect whether the call
    \* took a frame from the inbound side or handed one to the sink, sent the
    \* frames it handed to the sink
    opc, op, op_ret, call_connected, effect, sent,
    \* record: arguments, locals, the clock since start_time, the result;
    \* avail counts the samples queued at the call or arrived within duration,
    \* late those that arrived later while the call was still in flight
    duration, rate, samples_needed, collected_samples, collected_count, clock,
    wait_from, recorded, avail, late,
    \* play_streaming: chunks left in the generator, chunks yielded, on_chunk
    \* supplied, chunks on_chunk was called with, all_samples of the Local variant
    gen, yielded, has_on_chunk, seen, all_samples

lifeVars == <<connected, room, audio_source, audio_track, joined, rooms_made,
              cpc, ctl_result>>

inVars == <<remote_audio_queue, frames_in>>

callVars == <<opc, op, op_ret, call_connected, effect, sent>>

recVars == <<duration, rate, samples_needed, collected_samples, collected_count,
             clock, wait_from, recorded, avail, late>>

psVars == <<gen, yielded, has_on_chunk, seen, all_samples>>

VARIABLES
    \* the cancellation condition of the caller of play_streaming has been set
    \* while the stream was playing
    cancel_requested

cancelVars == <<cancel_requested>>

VARIABLES
    \* receivers is the bag of running _handle_audio_track tasks: one copy of a
    \* Room for every task that reads the AudioStream of a track of that Room
    receivers

taskVars == <<receivers>>

VARIABLES
    \* observation of the run: the number of frames the record and
    \* record_with_vad calls have taken from the inbound queue so far
    taken

staleVars == <<taken>>

transportVars == <<transport_type, lifeVars, inVars, callVars, recVars, psVars, cancelVars, taskVars, staleVars>>

VARIABLES
    \* CONFIG_AUDIO_TRANSPORT
    config_transport,
    \* the module global _transport (Nil: None) and the number of transport
    \* objects created so far
    g_transport, instances_made,
    \* the fields _connected and room of that object, the Room objects joined to
    \* the server and the number of Room objects created so far
    g_connected, g_room, g_joined, g_rooms_made,
    \* the tasks that call ensure_connected: position, the Room whose connect
    \* the task awaits, the outcome of its last call and the object it returned
    epc, e_room, e_ret, e_got,
    \* observation of the run: a connect has raised
    e_failed

ensureVars == <<config_transport, g_transport, instances_made, g_connected, g_room,
                g_joined, g_rooms_made, epc, e_room, e_ret, e_got, e_failed>>

VARIABLES
    \* the options and the standard input of one run of voice_approval
    opt_test, stdin_kind, auto_approve, tmux_session, dry_run,
    \* the position of the run, its locals message and approved, the text the
    \* speech service returned, the key handed to tmux send-keys
    apc, message, approved, heard_text, sent_key,
    \* observation of the run: the statement through which the command ended
    exit_path

approvalVars == <<opt_test, stdin_kind, auto_approve, tmux_session, dry_run,
                  apc, message, approved, heard_text, sent_key, exit_path>>

toolVars == <<ensureVars, approvalVars>>

vars == <<duplexVars, vadVars, transportVars, toolVars>>

\* ------------------------------------------------------------------------
\* Helpers
\* ------------------------------------------------------------------------
Min(a, b) == IF a <= b THEN a ELSE b

Last(s) == s[Len(s)]

RECURSIVE SumLen(_)
SumLen(frames) ==
    IF frames = <<>> THEN 0 ELSE Head(frames).len + SumLen(Tail(frames))

\* sum of |sample| over the concatenation of the frames
RECURSIVE SumAbs(_)
SumAbs(frames) ==
    IF frames = <<>> THEN 0
    ELSE Head(frames).len * Head(frames).level + SumAbs(Tail(frames))

\* np.abs(np.concatenate(frames)).mean() < bound
MeanBelow(frames, bound) == SumAbs(frames) < bound * SumLen(frames)

Ids(frames) == {frames[k].id : k \in 1..Len(frames)}

\* ------------------------------------------------------------------------
\* Part I : DuplexVoice
\* ------------------------------------------------------------------------

\* number of iterations of range(0, len(samples), chunk_size)
NChunks(n) == (n + CHUNK_SIZE - 1) \div CHUNK_SIZE

\* signal.resample(tts_audio, len(tts_audio) * 2)
ResampledLen(n) == n * RESAMPLE_FACTOR

\* positions of the main task inside speak (between its first and last statement)
InSpeak ==
    \/ pc = "tts"
    \/ pc \in {"send", "capture", "sleep"} /\ caller = "speak"

\* the main task is at an await (or between two calls): only then can the
\* receive task run; "send" is the synchronous code between two awaits
Suspended == pc # "send"

\* level > SPEECH_THRESHOLD
IsLoud(level) == level > SPEECH_THRESHOLD

\* self.audio_buffer.append(samples)
BufferAppend_WhenIdle(buf, frame) == IF is_speaking THEN buf ELSE Append(buf, frame)
BufferAppend(buf, frame) == Append(buf, frame)

\* the if/else of _receive_audio: the new speech_detected_samples
ScoreFrame_NoReset(speaking, frame, count) ==
    IF speaking /\ IsLoud(frame.level) THEN count + frame.len ELSE count
ScoreFrame(speaking, frame, count) ==
    IF speaking /\ IsLoud(frame.level) THEN count + frame.len ELSE 0

\* the nested if of _receive_audio: the new was_interrupted (and two variants:
\* one that compares with >, one that follows the current frame)
InterruptFlag_Follow(speaking, frame, count, flag) ==
    speaking /\ IsLoud(frame.level) /\ count >= INTERRUPT_SAMPLES
InterruptFlag_Late(speaking, frame, count, flag) ==
    IF speaking /\ IsLoud(frame.level) /\ count > INTERRUPT_SAMPLES THEN TRUE ELSE flag
InterruptFlag(speaking, frame, count, flag) ==
    IF speaking /\ IsLoud(frame.level) /\ count >= INTERRUPT_SAMPLES THEN TRUE ELSE flag

\* one iteration of `async for event in stream` in _receive_audio
ReceiveFrame(n, level) ==
    LET frame == [id |-> arrived + 1, len |-> n, level |-> level]
        count == ScoreFrame(is_speaking, frame, speech_detected_samples)
        newRun == IF IsLoud(level) THEN run + n ELSE 0
    IN  /\ arrived < MaxFrames
        /\ Suspended
        /\ audio_buffer' = BufferAppend(audio_buffer, frame)
        /\ speech_detected_samples' = count
        /\ was_interrupted' = InterruptFlag(is_speaking, frame, count, was_interrupted)
        /\ arrived' = arrived + 1
        /\ scored' = Append(scored, frame.id)
        /\ run' = newRun
        /\ reached' = (reached \/ newRun >= INTERRUPT_SAMPLES)
        /\ loudTotal' = IF IsLoud(level) THEN loudTotal + n ELSE loudTotal
        /\ callFrames' = callFrames + 1
        /\ speakFrames' = IF InSpeak THEN speakFrames \cup {frame.id} ELSE speakFrames
        /\ UNCHANGED <<is_speaking, pc, samples_len, i, speech_start, ret, delivered,
                       speaks, prevInterrupted, heard, lastOp, path>>
        /\ UNCHANGED caller
        /\ UNCHANGED vadVars
        /\ UNCHANGED transportVars
        /\ UNCHANGED toolVars

\* speak, lines 130-132, up to the await of the TTS request
ResetInterrupted_Keep(flag) == flag
ResetInterrupted(flag) == FALSE

\* `self.speech_detected_samples = 0`, line 132, and a speak that leaves the
\* count as it is
ResetSamples_Keep(count) == count
ResetSamples(count) == 0

SpeakBegin ==
    /\ pc = "idle"
    /\ speaks < MaxSpeaks
    /\ is_speaking' = TRUE
    /\ was_interrupted' = ResetInterrupted(was_interrupted)
    /\ speech_detected_samples' = ResetSamples(speech_detected_samples)
    /\ pc' = "tts"
    /\ speaks' = speaks + 1
    /\ prevInterrupted' = was_interrupted
    /\ run' = 0
    /\ reached' = FALSE
    /\ loudTotal' = 0
    /\ callFrames' = 0
    /\ speakFrames' = {}
    /\ delivered' = <<>>
    /\ samples_len' = 0
    /\ i' = 0
    /\ lastOp' = "speak"
    /\ path' = "tts"
    /\ ret' = "pending"
    /\ UNCHANGED <<audio_buffer, speech_start, arrived, scored, heard>>
    /\ UNCHANGED caller
    /\ UNCHANGED vadVars
    /\ UNCHANGED transportVars
    /\ UNCHANGED toolVars

\* client.post raises (connect error, timeout): the exception leaves speak
SpeakTtsRaise ==
    /\ pc = "tts"
    /\ pc' = "idle"
    /\ ret' = "raised"
    /\ path' = "raised"
    /\ UNCHANGED <<audio_buffer, is_speaking, was_interrupted, speech_detected_samples,
                   samples_len, i, speech_start, arrived, scored, delivered, speaks,
                   run, reached, loudTotal, callFrames, prevInterrupted, speakFrames,
                   heard, lastOp>>
    /\ UNCHANGED caller
    /\ UNCHANGED vadVars
    /\ UNCHANGED transportVars
    /\ UNCHANGED toolVars

\* resp.status_code != 200, lines 146-149
SpeakTtsError ==
    /\ pc = "tts"
    /\ is_speaking' = FALSE
    /\ pc' = "idle"
    /\ ret' = "true"
    /\ path' = "tts_error"
    /\ UNCHANGED <<audio_buffer, was_interrupted, speech_detected_samples,
                   samples_len, i, speech_start, arrived, scored, delivered, speaks,
                   run, reached, loudTotal, callFrames, prevInterrupted, speakFrames,
                   heard, lastOp>>
    /\ UNCHANGED caller
    /\ UNCHANGED vadVars
    /\ UNCHANGED transportVars
    /\ UNCHANGED toolVars

\* status 200: resample and enter _send_audio, lines 152-156 and 111-112
SpeakTtsOk(n) ==
    /\ pc = "tts"
    /\ samples_len' = ResampledLen(n)
    /\ i' = 0
    /\ pc' = "send"
    /\ caller' = "speak"
    /\ path' = "send"
    /\ UNCHANGED <<audio_buffer, is_speaking, was_interrupted, speech_detected_samples,
                   speech_start, ret, arrived, scored, delivered, speaks,
                   run, reached, loudTotal, callFrames, prevInterrupted, speakFrames,
                   heard, lastOp>>
    /\ UNCHANGED vadVars
    /\ UNCHANGED transportVars
    /\ UNCHANGED toolVars

\* `if self.was_interrupted: break` at the head of the loop body, and a loop
\* without that test
MaySend_Always(flag) == TRUE
MaySend(flag) == ~flag

\* chunk = samples[i:i+chunk_size], padded to chunk_size, lines 116-118, and
\* the same slice sent as it is
Chunk_NoPad(off, total) ==
    [off |-> off, n |-> Min(CHUNK_SIZE, total - off), pad |-> 0]

Chunk(off, total) ==
    LET n == Min(CHUNK_SIZE, total - off)
    IN  [off |-> off, n |-> n, pad |-> CHUNK_SIZE - n]

\* one loop iteration of _send_audio up to `await capture_frame`, lines 112-122
SendChunk ==
    /\ pc = "send"
    /\ i < samples_len
    /\ MaySend(was_interrupted)
    /\ delivered' = Append(delivered, Chunk(i, samples_len))
    /\ pc' = "capture"
    /\ UNCHANGED <<audio_buffer, is_speaking, was_interrupted, speech_detected_samples,
                   samples_len, i, speech_start, ret, arrived, scored, speaks,
                   run, reached, loudTotal, callFrames, prevInterrupted, speakFrames,
                   heard, lastOp, path>>
    /\ UNCHANGED caller
    /\ UNCHANGED vadVars
    /\ UNCHANGED transportVars
    /\ UNCHANGED toolVars

\* capture_frame returns; line 125 decides whether the loop sleeps
CaptureDone ==
    /\ pc = "capture"
    /\ IF i % (CHUNK_SIZE * SLEEP_EVERY_CHUNKS) = 0
       THEN pc' = "sleep" /\ i' = i
       ELSE pc' = "send" /\ i' = i + CHUNK_SIZE
    /\ UNCHANGED <<audio_buffer, is_speaking, was_interrupted, speech_detected_samples,
                   samples_len, speech_start, ret, arrived, scored, delivered, speaks,
                   run, reached, loudTotal, callFrames, prevInterrupted, speakFrames,
                   heard, lastOp, path>>
    /\ UNCHANGED caller
    /\ UNCHANGED vadVars
    /\ UNCHANGED transportVars
    /\ UNCHANGED toolVars

\* capture_frame raises: the exception leaves _send_audio and speak
CaptureRaise ==
    /\ pc = "capture"
    /\ pc' = "idle"
    /\ caller' = "none"
    /\ ret' = "raised"
    /\ path' = "raised"
    /\ UNCHANGED <<audio_buffer, is_speaking, was_interrupted, speech_detected_samples,
                   samples_len, i, speech_start, arrived, scored, delivered, speaks,
                   run, reached, loudTotal, callFrames, prevInterrupted, speakFrames,
                   heard, lastOp>>
    /\ UNCHANGED vadVars
    /\ UNCHANGED transportVars
    /\ UNCHANGED toolVars

\* asyncio.sleep(0.001) returns, line 126
SleepDone ==
    /\ pc = "sleep"
    /\ pc' = "send"
    /\ i' = i + CHUNK_SIZE
    /\ UNCHANGED <<audio_buffer, is_speaking, was_interrupted, speech_detected_samples,
                   samples_len, speech_start, ret, arrived, scored, delivered, speaks,
                   run, reached, loudTotal, callFrames, prevInterrupted, speakFrames,
                   heard, lastOp, path>>
    /\ UNCHANGED caller
    /\ UNCHANGED vadVars
    /\ UNCHANGED transportVars
    /\ UNCHANGED toolVars

\* `return not self.was_interrupted`, line 159
SpeakResult(flag) == IF flag THEN "false" ELSE "true"

\* the loop of _send_audio ends (range exhausted or break) and speak returns,
\* lines 113-114 and 158-159
SendExit ==
    /\ pc = "send"
    /\ caller = "speak"
    /\ (i >= samples_len \/ ~MaySend(was_interrupted))
    /\ is_speaking' = FALSE
    /\ ret' = SpeakResult(was_interrupted)
    /\ pc' = "idle"
    /\ caller' = "none"
    /\ path' = "sent"
    /\ UNCHANGED <<audio_buffer, was_interrupted, speech_detected_samples,
                   samples_len, i, speech_start, arrived, scored, delivered, speaks,
                   run, reached, loudTotal, callFrames, prevInterrupted, speakFrames,
                   heard, lastOp>>
    /\ UNCHANGED vadVars
    /\ UNCHANGED transportVars
    /\ UNCHANGED toolVars

\* generate_beep(freq, duration, sample_rate): the number of samples of the
\* tone, int(sample_rate * duration), with the duration in milliseconds
GenerateBeepLen(duration_ms, sample_rate) == (sample_rate * duration_ms) \div 1000

\* beep, lines 163-164: generate the tone and enter _send_audio; nothing of
\* the interrupt state is written.  main calls beep once speak has returned
\* a value, lines 249-254.
BeepBegin ==
    /\ pc = "idle"
    /\ lastOp = "speak"
    /\ path \in {"sent", "tts_error"}
    /\ samples_len' = GenerateBeepLen(BEEP_DURATION_MS, BEEP_SAMPLE_RATE)
    /\ i' = 0
    /\ pc' = "send"
    /\ caller' = "beep"
    /\ delivered' = <<>>
    /\ lastOp' = "beep"
    /\ path' = "send"
    /\ ret' = "pending"
    /\ prevInterrupted' = was_interrupted
    /\ UNCHANGED <<audio_buffer, is_speaking, was_interrupted, speech_detected_samples,
                   speech_start, arrived, scored, speaks, run, reached, loudTotal,
                   callFrames, speakFrames, heard>>
    /\ UNCHANGED vadVars
    /\ UNCHANGED transportVars
    /\ UNCHANGED toolVars

\* the loop of _send_audio ends (range exhausted or break) inside beep, which
\* goes on to `await asyncio.sleep(0.1)`, lines 113-114 and 165
BeepSendExit ==
    /\ pc = "send"
    /\ caller = "beep"
    /\ (i >= samples_len \/ ~MaySend(was_interrupted))
    /\ pc' = "beep_sleep"
    /\ caller' = "none"
    /\ UNCHANGED <<audio_buffer, is_speaking, was_interrupted, speech_detected_samples,
                   samples_len, i, speech_start, ret, arrived, scored, delivered, speaks,
                   run, reached, loudTotal, callFrames, prevInterrupted, speakFrames,
                   heard, lastOp, path>>
    /\ UNCHANGED vadVars
    /\ UNCHANGED transportVars
    /\ UNCHANGED toolVars

\* asyncio.sleep(0.1) returns and beep returns None, line 165
BeepDone ==
    /\ pc = "beep_sleep"
    /\ pc' = "idle"
    /\ ret' = "none"
    /\ path' = "beeped"
    /\ UNCHANGED <<audio_buffer, is_speaking, was_interrupted, speech_detected_samples,
                   caller, samples_len, i, speech_start, arrived, scored, delivered,
                   speaks, run, reached, loudTotal, callFrames, prevInterrupted,
                   speakFrames, heard, lastOp>>
    /\ UNCHANGED vadVars
    /\ UNCHANGED transportVars
    /\ UNCHANGED toolVars

\* listen, lines 169-176: clear the buffer and enter the polling loop
ListenBegin ==
    /\ pc = "idle"
    /\ audio_buffer' = <<>>
    /\ speech_start' = None
    /\ pc' = "listen"
    /\ lastOp' = IF lastOp = "speak" /\ path \in {"sent", "tts_error"}
                 THEN "listen_after_speak" ELSE "listen"
    /\ path' = "listen"
    /\ ret' = "pending"
    /\ heard' = <<>>
    /\ UNCHANGED <<is_speaking, was_interrupted, speech_detected_samples,
                   samples_len, i, arrived, scored, delivered, speaks,
                   run, reached, loudTotal, callFrames, prevInterrupted, speakFrames>>
    /\ UNCHANGED caller
    /\ UNCHANGED vadVars
    /\ UNCHANGED transportVars
    /\ UNCHANGED toolVars

\* the silence test of lines 192-197 on the current buffer
SilenceAfterSpeech(minSpeechPassed) ==
    /\ speech_start # None
    /\ minSpeechPassed
    /\ Len(audio_buffer) >= SILENCE_CHUNKS
    /\ MeanBelow(SubSeq(audio_buffer, Len(audio_buffer) - SILENCE_CHUNKS + 1,
                        Len(audio_buffer)),
                 SPEECH_THRESHOLD \div 2)

\* one wake-up of the polling loop, lines 176-199, and, when the loop is left,
\* lines 201-207 up to the await of the transcription request.
\* timedOut is `now - start > duration`, minSpeechPassed is
\* `now - speech_start > min_speech`: both are clock readings.
ListenWake(timedOut, minSpeechPassed) ==
    LET loud == audio_buffer # <<>> /\ IsLoud(Last(audio_buffer).level)
        leave == \/ timedOut
                 \/ /\ audio_buffer # <<>>
                    /\ ~loud
                    /\ SilenceAfterSpeech(minSpeechPassed)
    IN  /\ pc = "listen"
        /\ speech_start' = IF ~timedOut /\ loud /\ speech_start = None
                           THEN Set ELSE speech_start
        /\ IF ~leave
           THEN pc' = "listen" /\ ret' = ret /\ heard' = heard
           ELSE IF audio_buffer = <<>> \/ MeanBelow(audio_buffer, MIN_TRANSCRIBE_LEVEL)
           THEN pc' = "idle" /\ ret' = "empty" /\ heard' = heard
           ELSE pc' = "stt" /\ ret' = ret /\ heard' = audio_buffer
        /\ UNCHANGED <<audio_buffer, is_speaking, was_interrupted,
                       speech_detected_samples, samples_len, i, arrived, scored,
                       delivered, speaks, run, reached, loudTotal, callFrames,
                       prevInterrupted, speakFrames, lastOp, path>>
        /\ UNCHANGED caller
        /\ UNCHANGED vadVars
        /\ UNCHANGED transportVars
        /\ UNCHANGED toolVars

\* what listen returns for the outcome of the transcription request: the text
\* of a 200 answer (which may be empty), "" for any other status, lines 226-228
SttReturn(outcome) ==
    IF outcome = "error" THEN "empty" ELSE outcome

\* the transcription request ends: status 200 with a text or with none, another
\* status, or an exception, lines 218-228
SttDone(outcome) ==
    /\ pc = "stt"
    /\ pc' = "idle"
    /\ ret' = SttReturn(outcome)
    /\ path' = IF outcome = "error" THEN "stt_error" ELSE path
    /\ heard' = <<>>
    /\ UNCHANGED <<audio_buffer, is_speaking, was_interrupted, speech_detected_samples,
                   samples_len, i, speech_start, arrived, scored, delivered, speaks,
                   run, reached, loudTotal, callFrames, prevInterrupted, speakFrames,
                   lastOp>>
    /\ UNCHANGED caller
    /\ UNCHANGED vadVars
    /\ UNCHANGED transportVars
    /\ UNCHANGED toolVars

DuplexInit ==
    /\ audio_buffer = <<>>
    /\ is_speaking = FALSE
    /\ was_interrupted = FALSE
    /\ speech_detected_samples = 0
    /\ pc = "idle"
    /\ caller = "none"
    /\ samples_len = 0
    /\ i = 0
    /\ speech_start = None
    /\ ret = "none"
    /\ arrived = 0
    /\ scored = <<>>
    /\ delivered = <<>>
    /\ speaks = 0
    /\ run = 0
    /\ reached = FALSE
    /\ loudTotal = 0
    /\ callFrames = 0
    /\ prevInterrupted = FALSE
    /\ speakFrames = {}
    /\ heard = <<>>
    /\ lastOp = "none"
    /\ path = "none"

DuplexNext ==
    \/ \E kind \in FrameKinds : ReceiveFrame(kind.len, kind.level)
    \/ SpeakBegin
    \/ SpeakTtsRaise
    \/ SpeakTtsError
    \/ \E n \in TtsLens : SpeakTtsOk(n)
    \/ SendChunk
    \/ CaptureDone
    \/ CaptureRaise
    \/ SleepDone
    \/ SendExit
    \/ ListenBegin
    \/ \E timedOut \in BOOLEAN, minSpeechPassed \in BOOLEAN :
          ListenWake(timedOut, minSpeechPassed)
    \/ \E outcome \in {"text", "empty", "error", "raised"} : SttDone(outcome)

\* the receive task and a main task that speaks and beeps, as main does before
\* each listen, lines 243-252
BeepNext ==
    \/ \E kind \in FrameKinds : ReceiveFrame(kind.len, kind.level)
    \/ SpeakBegin
    \/ SpeakTtsRaise
    \/ SpeakTtsError
    \/ \E n \in TtsLens : SpeakTtsOk(n)
    \/ SendChunk
    \/ CaptureDone
    \/ CaptureRaise
    \/ SleepDone
    \/ SendExit
    \/ BeepBegin
    \/ BeepSendExit
    \/ BeepDone

\* ------------------------------------------------------------------------
\* Part II : record_with_vad (LocalAudioTransport and LiveKitAudioTransport)
\*
\* Time is a clock of 10 ms ticks.  The clock advances only while the call is
\* blocked on an empty queue; the code between two queue reads takes no time.
\* A chunk is [id, speech]: speech is what vad_callback returns for its bytes.
\* History: graceSeen (a chunk went through the else branch), speechSeen (the
\* callback returned true), span_start / span_len (clock reading of the first and
\* number of the chunks classified as silence since the last one classified as
\* speech).
\* ------------------------------------------------------------------------

\* silence_start = None
NoTime == 0 - 1

\* recording_start = time.time(): the origin of the clock
recording_start == 0

\* `if elapsed >= max_duration: break`
CeilingReached_Never(e, maxd) == FALSE
CeilingReached(e, maxd) == e >= maxd

\* `speech_detected = True` of the else branch (grace period, or no callback)
GraceFlag_Keep(flag) == flag
GraceFlag(flag) == TRUE

\* `silence_start = None` after a chunk classified as speech
SilenceStartAfterSpeech_Keep(start) == start
SilenceStartAfterSpeech(start) == NoTime

\* (time.time() - silence_start) * 1000 >= silence_threshold_ms
SilenceReached(t, start, threshold) == (t - start) >= threshold

\* `elapsed >= min_duration and vad_callback`: the chunk goes to the callback
Classified_NoGrace == has_callback
Classified_NoCallbackTest == elapsed >= min_duration
Classified == elapsed >= min_duration /\ has_callback

\* the body of the try block after the chunk was taken from the queue:
\* the new speech_detected (sd), the new silence_start (ss), and whether the
\* loop is left by the break of the silence test (stop)
ProcessChunk(chunk) ==
    IF Classified
    THEN IF chunk.speech
         THEN [sd |-> TRUE, ss |-> SilenceStartAfterSpeech(silence_start),
               stop |-> FALSE]
         ELSE IF silence_start = NoTime
         THEN [sd |-> speech_detected, ss |-> now, stop |-> FALSE]
         ELSE [sd |-> speech_detected, ss |-> silence_start,
               stop |-> SilenceReached(now, silence_start, silence_threshold)]
    ELSE [sd |-> GraceFlag(speech_detected), ss |-> silence_start, stop |-> FALSE]

\* the except branch of transport v: LiveKit tests the silence span
\* (`if silence_start and ...: break`), Local only continues
TimeoutStopsOn(v) ==
    /\ v = "livekit"
    /\ silence_start # NoTime
    /\ SilenceReached(now, silence_start, silence_threshold)

\* the except branch of the transport that runs the call
TimeoutStops == TimeoutStopsOn(variant)

\* the two return statements after the loop, and a return that reports speech
\* whatever was recorded
ReturnValue_AssumeSpeech(chunks, flag) ==
    [samples |-> chunks, flag |-> TRUE]

ReturnValue(chunks, flag) ==
    IF chunks # <<>> THEN [samples |-> chunks, flag |-> flag]
    ELSE [samples |-> <<>>, flag |-> FALSE]

\* the device callback / _handle_audio_track puts a chunk on the queue
VadArrive(speech) ==
    /\ vpc # "done"
    /\ produced < MaxChunks
    /\ queue' = Append(queue, [id |-> produced + 1, speech |-> speech])
    /\ produced' = produced + 1
    /\ UNCHANGED <<variant, max_duration, min_duration, silence_threshold,
                   has_callback, now, vpc, elapsed, wait_start, audio_chunks,
                   speech_detected, silence_start, result, stop_reason, graceSeen,
                   speechSeen, span_start, span_len>>
    /\ UNCHANGED duplexVars
    /\ UNCHANGED transportVars
    /\ UNCHANGED toolVars

\* 10 ms pass while the call is blocked on the empty queue
VadTick ==
    /\ vpc = "wait"
    /\ queue = <<>>
    /\ now - wait_start < TIMEOUT_TICKS
    /\ now' = now + 1
    /\ UNCHANGED <<variant, max_duration, min_duration, silence_threshold,
                   has_callback, queue, vpc, elapsed, wait_start, audio_chunks,
                   speech_detected, silence_start, result, produced, stop_reason,
                   graceSeen, speechSeen, span_start, span_len>>
    /\ UNCHANGED duplexVars
    /\ UNCHANGED transportVars
    /\ UNCHANGED toolVars

\* the head of the loop: read the clock, test the ceiling, start the queue read
VadTop ==
    LET e == now - recording_start
    IN  /\ vpc = "top"
        /\ elapsed' = e
        /\ IF CeilingReached(e, max_duration)
           THEN /\ vpc' = "done"
                /\ result' = ReturnValue(audio_chunks, speech_detected)
                /\ stop_reason' = "max"
                /\ wait_start' = wait_start
           ELSE /\ vpc' = "wait"
                /\ wait_start' = now
                /\ UNCHANGED <<result, stop_reason>>
        /\ UNCHANGED <<variant, max_duration, min_duration, silence_threshold,
                       has_callback, now, queue, audio_chunks, speech_detected,
                       silence_start, produced, graceSeen, speechSeen, span_start,
                       span_len>>
        /\ UNCHANGED duplexVars
        /\ UNCHANGED transportVars
        /\ UNCHANGED toolVars

\* the queue read returns a chunk: append it and run the VAD logic
VadGet ==
    LET chunk == Head(queue)
        out == ProcessChunk(chunk)
        chunks == Append(audio_chunks, chunk)
    IN  /\ vpc = "wait"
        /\ queue # <<>>
        /\ queue' = Tail(queue)
        /\ audio_chunks' = chunks
        /\ speech_detected' = out.sd
        /\ silence_start' = out.ss
        /\ graceSeen' = (graceSeen \/ ~Classified)
        /\ speechSeen' = (speechSeen \/ (Classified /\ chunk.speech))
        /\ span_start' = IF ~Classified THEN span_start
                         ELSE IF chunk.speech THEN NoTime
                         ELSE IF span_len = 0 THEN now ELSE span_start
        /\ span_len' = IF ~Classified THEN span_len
                       ELSE IF chunk.speech THEN 0 ELSE span_len + 1
        /\ IF out.stop
           THEN /\ vpc' = "done"
                /\ result' = ReturnValue(chunks, out.sd)
                /\ stop_reason' = "silence_chunk"
           ELSE /\ vpc' = "top"
                /\ UNCHANGED <<result, stop_reason>>
        /\ UNCHANGED <<variant, max_duration, min_duration, silence_threshold,
                       has_callback, now, elapsed, wait_start, produced>>
        /\ UNCHANGED duplexVars
        /\ UNCHANGED transportVars
        /\ UNCHANGED toolVars

\* the queue read times out after 0.1 s without a chunk
VadTimeout ==
    /\ vpc = "wait"
    /\ queue = <<>>
    /\ now - wait_start >= TIMEOUT_TICKS
    /\ IF TimeoutStops
       THEN /\ vpc' = "done"
            /\ result' = ReturnValue(audio_chunks, speech_detected)
            /\ stop_reason' = "silence_timeout"
       ELSE /\ vpc' = "top"
            /\ UNCHANGED <<result, stop_reason>>
    /\ UNCHANGED <<variant, max_duration, min_duration, silence_threshold,
                   has_callback, now, queue, elapsed, wait_start, audio_chunks,
                   speech_detected, silence_start, produced, graceSeen, speechSeen,
                   span_start, span_len>>
    /\ UNCHANGED duplexVars
    /\ UNCHANGED transportVars
    /\ UNCHANGED toolVars

\* the locals of record_with_vad as the call starts
VadLocalsInit ==
    /\ now = recording_start
    /\ queue = <<>>
    /\ elapsed = 0
    /\ wait_start = 0
    /\ audio_chunks = <<>>
    /\ speech_detected = FALSE
    /\ silence_start = NoTime
    /\ result = [samples |-> <<>>, flag |-> FALSE]
    /\ produced = 0
    /\ graceSeen = FALSE
    /\ speechSeen = FALSE
    /\ span_start = NoTime
    /\ span_len = 0
    /\ stop_reason = "none"

\* a call of record_with_vad on a connected transport, with any arguments
VadInit ==
    /\ variant \in {"local", "livekit"}
    /\ max_duration \in MaxDurations
    /\ min_duration \in MinDurations
    /\ silence_threshold \in SilenceThresholds
    /\ has_callback \in BOOLEAN
    /\ vpc = "top"
    /\ VadLocalsInit

\* no call of record_with_vad
VadIdle ==
    /\ variant = "local"
    /\ max_duration = 0
    /\ min_duration = 0
    /\ silence_threshold = 0
    /\ has_callback = FALSE
    /\ vpc = "done"
    /\ VadLocalsInit

VadNext ==
    \/ \E speech \in BOOLEAN : VadArrive(speech)
    \/ VadTick
    \/ VadTop
    \/ VadGet
    \/ VadTimeout

\* ------------------------------------------------------------------------
\* Part III : the transport life cycle and the transport operations
\*
\* Two tasks share one transport instance: one calls connect and disconnect
\* (position cpc), the other calls record, record_with_vad, play and
\* play_streaming (position opc).  They interleave at awaits.  A Room object is
\* the number of the connect call that created it; an AudioSource carries the
\* number of the Room it was created for.  An inbound frame is [id, len], a
\* streamed chunk is its number in generator order, and a frame handed to the
\* sink is [chunks, fmt]: the chunks whose samples it carries and their format.
\* The record clock counts ticks of 250 ms and advances only while record is
\* blocked on the empty queue.
\* ------------------------------------------------------------------------

\* None in room, audio_source and audio_track
Nil == 0

\* start_time = time.time(): the origin of the record clock
start_time == 0

\* int(duration * config.sample_rate) with duration in ticks: one second is two
\* timeouts of 0.5 s
SamplesNeeded(d, r) == (d * r) \div (2 * RECORD_TIMEOUT_TICKS)

\* the length of np.concatenate(collected_samples)[:samples_needed]
Truncate_None(n, needed) == n
Truncate(n, needed) == Min(n, needed)

\* `self._connected = False` of disconnect
FlagAfterDisconnect_Keep(c) == c
FlagAfterDisconnect(c) == FALSE

\* the two return statements of LiveKitAudioTransport.record
RecordResult(frames, count, needed) ==
    IF frames # <<>>
    THEN [ids |-> [k \in 1..Len(frames) |-> frames[k].id],
          n |-> Truncate(count, needed)]
    ELSE [ids |-> <<>>, n |-> 0]

\* the two return statements of LiveKitAudioTransport.record_with_vad, the
\* samples only
VadResult(frames, count) ==
    IF frames # <<>>
    THEN [ids |-> [k \in 1..Len(frames) |-> frames[k].id], n |-> count]
    ELSE [ids |-> <<>>, n |-> 0]

\* `await self._remote_audio_queue.put(samples)` on the asyncio.Queue, and the
\* put of a queue that hands out the newest item first
QueuePut_Front(q, samples) == <<samples>> \o q
QueuePut(q, samples) == Append(q, samples)

\* the queue after `await self._remote_audio_queue.get()` has returned its
\* oldest item, and a read that leaves the item on the queue
QueueGet_Peek(q) == q
QueueGet(q) == Tail(q)

\* the test at the head of the LiveKit operations; the Local operations have none
NotConnected(o) ==
    /\ transport_type = "livekit"
    /\ \/ ~connected
       \/ o \in {"play", "play_streaming"} /\ audio_source = Nil

\* the record call is in flight
InRecord == opc \in {"rec_top", "rec_wait"}

\* the chunks carried by a sequence of frames, in order
RECURSIVE Flatten(_)
Flatten(frames) ==
    IF frames = <<>> THEN <<>> ELSE Head(frames).chunks \o Flatten(Tail(frames))

\* no record call has left locals behind; rate is config.sample_rate of the
\* call in flight
RecLocalsClear ==
    /\ duration' = 0
    /\ samples_needed' = 0
    /\ collected_samples' = <<>>
    /\ collected_count' = 0
    /\ clock' = start_time
    /\ wait_from' = start_time
    /\ recorded' = [ids |-> <<>>, n |-> 0]
    /\ avail' = 0
    /\ late' = 0

RecLocalsFresh ==
    /\ RecLocalsClear
    /\ rate' = 0

\* no play_streaming call has left locals behind
PsLocalsFresh ==
    /\ gen' = 0
    /\ yielded' = <<>>
    /\ has_on_chunk' = FALSE
    /\ seen' = <<>>
    /\ all_samples' = <<>>

\* ---- connect and disconnect ----

\* LiveKit connect: the import or the creation of the token raises
ConnectTokenRaise ==
    /\ transport_type = "livekit"
    /\ cpc = "idle"
    /\ ctl_result' = "connect_raised"
    /\ UNCHANGED <<connected, room, audio_source, audio_track, joined, rooms_made,
                   cpc>>
    /\ UNCHANGED <<transport_type, inVars, callVars, recVars, psVars>>
    /\ UNCHANGED cancelVars
    /\ UNCHANGED taskVars
    /\ UNCHANGED staleVars
    /\ UNCHANGED duplexVars
    /\ UNCHANGED vadVars
    /\ UNCHANGED toolVars

\* LiveKit connect up to `await self.room.connect(...)`: self.room is a new Room
ConnectBegin ==
    /\ transport_type = "livekit"
    /\ cpc = "idle"
    /\ rooms_made < MaxConnects
    /\ rooms_made' = rooms_made + 1
    /\ room' = rooms_made + 1
    /\ cpc' = "joining"
    /\ ctl_result' = "pending"
    /\ UNCHANGED <<connected, audio_source, audio_track, joined>>
    /\ UNCHANGED <<transport_type, inVars, callVars, recVars, psVars>>
    /\ UNCHANGED cancelVars
    /\ UNCHANGED taskVars
    /\ UNCHANGED staleVars
    /\ UNCHANGED duplexVars
    /\ UNCHANGED vadVars
    /\ UNCHANGED toolVars

\* room.connect returns: the source and the track are created, publish_track
\* is awaited
JoinOk ==
    /\ cpc = "joining"
    /\ joined' = joined \cup {room}
    /\ audio_source' = room
    /\ audio_track' = room
    /\ cpc' = "publishing"
    /\ UNCHANGED <<connected, room, rooms_made, ctl_result>>
    /\ UNCHANGED <<transport_type, inVars, callVars, recVars, psVars>>
    /\ UNCHANGED cancelVars
    /\ UNCHANGED taskVars
    /\ UNCHANGED staleVars
    /\ UNCHANGED duplexVars
    /\ UNCHANGED vadVars
    /\ UNCHANGED toolVars

\* room.connect raises: connect propagates it
JoinRaise ==
    /\ cpc = "joining"
    /\ cpc' = "idle"
    /\ ctl_result' = "connect_raised"
    /\ UNCHANGED <<connected, room, audio_source, audio_track, joined, rooms_made>>
    /\ UNCHANGED <<transport_type, inVars, callVars, recVars, psVars>>
    /\ UNCHANGED cancelVars
    /\ UNCHANGED taskVars
    /\ UNCHANGED staleVars
    /\ UNCHANGED duplexVars
    /\ UNCHANGED vadVars
    /\ UNCHANGED toolVars

\* publish_track returns: `self._connected = True`
PublishOk ==
    /\ cpc = "publishing"
    /\ connected' = TRUE
    /\ cpc' = "idle"
    /\ ctl_result' = "connect_ok"
    /\ UNCHANGED <<room, audio_source, audio_track, joined, rooms_made>>
    /\ UNCHANGED <<transport_type, inVars, callVars, recVars, psVars>>
    /\ UNCHANGED cancelVars
    /\ UNCHANGED taskVars
    /\ UNCHANGED staleVars
    /\ UNCHANGED duplexVars
    /\ UNCHANGED vadVars
    /\ UNCHANGED toolVars

\* publish_track raises: connect propagates it
PublishRaise ==
    /\ cpc = "publishing"
    /\ cpc' = "idle"
    /\ ctl_result' = "connect_raised"
    /\ UNCHANGED <<connected, room, audio_source, audio_track, joined, rooms_made>>
    /\ UNCHANGED <<transport_type, inVars, callVars, recVars, psVars>>
    /\ UNCHANGED cancelVars
    /\ UNCHANGED taskVars
    /\ UNCHANGED staleVars
    /\ UNCHANGED duplexVars
    /\ UNCHANGED vadVars
    /\ UNCHANGED toolVars

\* Local connect: sd._terminate(), sd._initialize(), `self._connected = True`
LocalConnect ==
    /\ transport_type = "local"
    /\ cpc = "idle"
    /\ connected' = TRUE
    /\ ctl_result' = "connect_ok"
    /\ UNCHANGED <<room, audio_source, audio_track, joined, rooms_made, cpc>>
    /\ UNCHANGED <<transport_type, inVars, callVars, recVars, psVars>>
    /\ UNCHANGED cancelVars
    /\ UNCHANGED taskVars
    /\ UNCHANGED staleVars
    /\ UNCHANGED duplexVars
    /\ UNCHANGED vadVars
    /\ UNCHANGED toolVars

\* Local connect: sd._terminate() or sd._initialize() raises
LocalConnectRaise ==
    /\ transport_type = "local"
    /\ cpc = "idle"
    /\ ctl_result' = "connect_raised"
    /\ UNCHANGED <<connected, room, audio_source, audio_track, joined, rooms_made,
                   cpc>>
    /\ UNCHANGED <<transport_type, inVars, callVars, recVars, psVars>>
    /\ UNCHANGED cancelVars
    /\ UNCHANGED taskVars
    /\ UNCHANGED staleVars
    /\ UNCHANGED duplexVars
    /\ UNCHANGED vadVars
    /\ UNCHANGED toolVars

\* LiveKit disconnect up to `await self.room.disconnect()`, or the whole of it
\* when self.room is None
DisconnectBegin ==
    /\ transport_type = "livekit"
    /\ cpc = "idle"
    /\ IF room # Nil
       THEN /\ cpc' = "leaving"
            /\ ctl_result' = "pending"
            /\ UNCHANGED <<connected, room, audio_source, audio_track>>
       ELSE /\ audio_source' = Nil
            /\ audio_track' = Nil
            /\ connected' = FlagAfterDisconnect(connected)
            /\ ctl_result' = "disconnect_ok"
            /\ UNCHANGED <<room, cpc>>
    /\ UNCHANGED <<joined, rooms_made>>
    /\ UNCHANGED <<transport_type, inVars, callVars, recVars, psVars>>
    /\ UNCHANGED cancelVars
    /\ UNCHANGED taskVars
    /\ UNCHANGED staleVars
    /\ UNCHANGED duplexVars
    /\ UNCHANGED vadVars
    /\ UNCHANGED toolVars

\* room.disconnect returns: the fields are cleared
LeaveDone ==
    /\ cpc = "leaving"
    /\ joined' = joined \ {room}
    /\ room' = Nil
    /\ audio_source' = Nil
    /\ audio_track' = Nil
    /\ connected' = FlagAfterDisconnect(connected)
    /\ cpc' = "idle"
    /\ ctl_result' = "disconnect_ok"
    /\ UNCHANGED rooms_made
    /\ UNCHANGED <<transport_type, inVars, callVars, recVars, psVars>>
    /\ UNCHANGED cancelVars
    /\ receivers' = [r \in BagToSet(receivers) \ {room} |-> receivers[r]]
    /\ UNCHANGED staleVars
    /\ UNCHANGED duplexVars
    /\ UNCHANGED vadVars
    /\ UNCHANGED toolVars

\* Local disconnect
LocalDisconnect ==
    /\ transport_type = "local"
    /\ cpc = "idle"
    /\ connected' = FlagAfterDisconnect(connected)
    /\ ctl_result' = "disconnect_ok"
    /\ UNCHANGED <<room, audio_source, audio_track, joined, rooms_made, cpc>>
    /\ UNCHANGED <<transport_type, inVars, callVars, recVars, psVars>>
    /\ UNCHANGED cancelVars
    /\ UNCHANGED taskVars
    /\ UNCHANGED staleVars
    /\ UNCHANGED duplexVars
    /\ UNCHANGED vadVars
    /\ UNCHANGED toolVars

\* ---- the inbound side ----

\* on_track_subscribed of Room r for one more remote audio track: a task running
\* _handle_audio_track is created, whatever tasks exist already (for a track that
\* is not audio the handler does nothing)
TrackSubscribed(r) ==
    /\ transport_type = "livekit"
    /\ r \in joined
    /\ BagCardinality(receivers) < Cardinality(Tracks)
    /\ receivers' = receivers (+) SetToBag({r})
    /\ UNCHANGED <<transport_type, lifeVars, inVars, callVars, recVars, psVars>>
    /\ UNCHANGED cancelVars
    /\ UNCHANGED staleVars
    /\ UNCHANGED duplexVars
    /\ UNCHANGED vadVars
    /\ UNCHANGED toolVars

\* handling a frame raises inside a task of Room r (np.frombuffer on data that is
\* not a whole number of int16 samples): nothing in _handle_audio_track catches
\* it, the exception ends the task and the stream of its track is read no more
InboundBad(r) ==
    /\ BagIn(r, receivers)
    /\ receivers' = receivers (-) SetToBag({r})
    /\ UNCHANGED <<transport_type, lifeVars, inVars, callVars, recVars, psVars>>
    /\ UNCHANGED cancelVars
    /\ UNCHANGED staleVars
    /\ UNCHANGED duplexVars
    /\ UNCHANGED vadVars
    /\ UNCHANGED toolVars

\* a running _handle_audio_track task puts a frame of n samples on the queue
Inbound(n) ==
    /\ transport_type = "livekit"
    /\ receivers # EmptyBag
    /\ frames_in < MaxInbound
    /\ frames_in' = frames_in + 1
    /\ remote_audio_queue' =
           QueuePut(remote_audio_queue, [id |-> frames_in + 1, len |-> n])
    /\ avail' = IF InRecord /\ clock - start_time < duration
                THEN avail + n ELSE avail
    /\ late' = IF InRecord /\ clock - start_time >= duration
               THEN late + n ELSE late
    /\ UNCHANGED <<duration, rate, samples_needed, collected_samples,
                   collected_count, clock, wait_from, recorded>>
    /\ UNCHANGED <<transport_type, lifeVars, callVars, psVars>>
    /\ UNCHANGED cancelVars
    /\ UNCHANGED taskVars
    /\ UNCHANGED staleVars
    /\ UNCHANGED duplexVars
    /\ UNCHANGED vadVars
    /\ UNCHANGED toolVars

\* ---- record ----

\* record(duration, config) up to its first await.  Local: sd.rec and sd.wait
\* block until the device has delivered samples_to_record samples.
RecordCall(d, r) ==
    /\ opc = "idle"
    /\ op' = "record"
    /\ call_connected' = connected
    /\ sent' = <<>>
    /\ PsLocalsFresh
    /\ IF NotConnected("record")
       THEN /\ op_ret' = "not_connected"
            /\ opc' = "idle"
            /\ effect' = FALSE
            /\ RecLocalsFresh
       ELSE /\ duration' = d
            /\ rate' = r
            /\ samples_needed' = SamplesNeeded(d, r)
            /\ collected_samples' = <<>>
            /\ collected_count' = 0
            /\ wait_from' = start_time
            /\ late' = 0
            /\ IF transport_type = "local"
               THEN /\ op_ret' = "returned"
                    /\ opc' = "idle"
                    /\ effect' = TRUE
                    /\ clock' = start_time + d
                    /\ recorded' = [ids |-> <<>>, n |-> SamplesNeeded(d, r)]
                    /\ avail' = SamplesNeeded(d, r)
               ELSE /\ op_ret' = "pending"
                    /\ opc' = "rec_top"
                    /\ effect' = FALSE
                    /\ clock' = start_time
                    /\ recorded' = [ids |-> <<>>, n |-> 0]
                    /\ avail' = SumLen(remote_audio_queue)
    /\ UNCHANGED <<transport_type, lifeVars, inVars>>
    /\ cancel_requested' = FALSE
    /\ UNCHANGED taskVars
    /\ UNCHANGED staleVars
    /\ UNCHANGED duplexVars
    /\ UNCHANGED vadVars
    /\ UNCHANGED toolVars

\* the head of the loop: the while test, `remaining <= 0: break`, the start of
\* the queue read, or the return after the loop
RecTop ==
    LET remaining == duration - (clock - start_time)
    IN  /\ opc = "rec_top"
        /\ IF collected_count < samples_needed /\ remaining > 0
           THEN /\ opc' = "rec_wait"
                /\ wait_from' = clock
                /\ UNCHANGED <<op_ret, recorded>>
           ELSE /\ opc' = "idle"
                /\ op_ret' = "returned"
                /\ recorded' = RecordResult(collected_samples, collected_count,
                                            samples_needed)
                /\ wait_from' = wait_from
        /\ UNCHANGED <<op, call_connected, effect, sent>>
        /\ UNCHANGED <<duration, rate, samples_needed, collected_samples,
                       collected_count, clock, avail, late>>
        /\ UNCHANGED <<transport_type, lifeVars, inVars, psVars>>
        /\ UNCHANGED cancelVars
        /\ UNCHANGED taskVars
        /\ UNCHANGED staleVars
        /\ UNCHANGED duplexVars
        /\ UNCHANGED vadVars
        /\ UNCHANGED toolVars

\* 250 ms pass while record is blocked on the empty queue
RecTick ==
    LET remaining == duration - (wait_from - start_time)
    IN  /\ opc = "rec_wait"
        /\ remote_audio_queue = <<>>
        /\ clock - wait_from < Min(remaining, RECORD_TIMEOUT_TICKS)
        /\ clock' = clock + 1
        /\ UNCHANGED <<duration, rate, samples_needed, collected_samples,
                       collected_count, wait_from, recorded, avail, late>>
        /\ UNCHANGED <<transport_type, lifeVars, inVars, callVars, psVars>>
        /\ UNCHANGED cancelVars
        /\ UNCHANGED taskVars
        /\ UNCHANGED staleVars
        /\ UNCHANGED duplexVars
        /\ UNCHANGED vadVars
        /\ UNCHANGED toolVars

\* the queue read returns a frame
RecGet ==
    LET samples == Head(remote_audio_queue)
    IN  /\ opc = "rec_wait"
        /\ remote_audio_queue # <<>>
        /\ remote_audio_queue' = QueueGet(remote_audio_queue)
        /\ collected_samples' = Append(collected_samples, samples)
        /\ collected_count' = collected_count + samples.len
        /\ effect' = TRUE
        /\ opc' = "rec_top"
        /\ UNCHANGED <<op, op_ret, call_connected, sent>>
        /\ UNCHANGED <<duration, rate, samples_needed, clock, wait_from, recorded,
                       avail, late>>
        /\ UNCHANGED <<transport_type, lifeVars, frames_in, psVars>>
        /\ UNCHANGED cancelVars
        /\ UNCHANGED taskVars
        /\ taken' = taken + 1
        /\ UNCHANGED duplexVars
        /\ UNCHANGED vadVars
        /\ UNCHANGED toolVars

\* the queue read times out: `except asyncio.TimeoutError: continue`
RecTimeout ==
    LET remaining == duration - (wait_from - start_time)
    IN  /\ opc = "rec_wait"
        /\ remote_audio_queue = <<>>
        /\ clock - wait_from >= Min(remaining, RECORD_TIMEOUT_TICKS)
        /\ opc' = "rec_top"
        /\ UNCHANGED <<op, op_ret, call_connected, effect, sent>>
        /\ UNCHANGED <<transport_type, lifeVars, inVars, recVars, psVars>>
        /\ UNCHANGED cancelVars
        /\ UNCHANGED taskVars
        /\ UNCHANGED staleVars
        /\ UNCHANGED duplexVars
        /\ UNCHANGED vadVars
        /\ UNCHANGED toolVars

\* ---- record_with_vad: the test at its head; the loop itself is Part II ----

\* record_with_vad(...) up to its loop
VadCall ==
    /\ opc = "idle"
    /\ op' = "record_with_vad"
    /\ call_connected' = connected
    /\ sent' = <<>>
    /\ effect' = FALSE
    /\ RecLocalsFresh
    /\ PsLocalsFresh
    /\ IF NotConnected("record_with_vad")
       THEN /\ op_ret' = "not_connected"
            /\ opc' = "idle"
       ELSE /\ op_ret' = "pending"
            /\ opc' = "vad"
    /\ UNCHANGED <<transport_type, lifeVars, inVars>>
    /\ cancel_requested' = FALSE
    /\ UNCHANGED taskVars
    /\ UNCHANGED staleVars
    /\ UNCHANGED duplexVars
    /\ UNCHANGED vadVars
    /\ UNCHANGED toolVars

\* the loop takes a chunk: from the inbound queue (LiveKit) or from the device
\* stream it has opened (Local)
VadBodyGet ==
    /\ opc = "vad"
    /\ IF transport_type = "livekit"
       THEN LET samples == Head(remote_audio_queue)
            IN  /\ remote_audio_queue # <<>>
                /\ remote_audio_queue' = QueueGet(remote_audio_queue)
                /\ collected_samples' = Append(collected_samples, samples)
                /\ collected_count' = collected_count + samples.len
       ELSE UNCHANGED <<remote_audio_queue, collected_samples, collected_count>>
    /\ effect' = TRUE
    /\ UNCHANGED <<opc, op, op_ret, call_connected, sent>>
    /\ UNCHANGED <<duration, rate, samples_needed, clock, wait_from, recorded,
                   avail, late>>
    /\ UNCHANGED <<transport_type, lifeVars, frames_in, psVars>>
    /\ UNCHANGED cancelVars
    /\ UNCHANGED taskVars
    /\ taken' = IF transport_type = "livekit" THEN taken + 1 ELSE taken
    /\ UNCHANGED duplexVars
    /\ UNCHANGED vadVars
    /\ UNCHANGED toolVars

\* the loop is left and record_with_vad returns
VadBodyReturn ==
    /\ opc = "vad"
    /\ opc' = "idle"
    /\ op_ret' = "returned"
    /\ recorded' = VadResult(collected_samples, collected_count)
    /\ UNCHANGED <<op, call_connected, effect, sent>>
    /\ UNCHANGED <<duration, rate, samples_needed, collected_samples,
                   collected_count, clock, wait_from, avail, late>>
    /\ UNCHANGED <<transport_type, lifeVars, inVars, psVars>>
    /\ UNCHANGED cancelVars
    /\ UNCHANGED taskVars
    /\ UNCHANGED staleVars
    /\ UNCHANGED duplexVars
    /\ UNCHANGED vadVars
    /\ UNCHANGED toolVars

\* ---- play ----

\* play(samples, config): one frame with the whole buffer (chunk 0).  Local:
\* sd.play and sd.wait block until the buffer is played.
PlayCall(n, r) ==
    /\ opc = "idle"
    /\ op' = "play"
    /\ call_connected' = connected
    /\ RecLocalsClear
    /\ rate' = r
    /\ PsLocalsFresh
    /\ IF NotConnected("play")
       THEN /\ op_ret' = "not_connected"
            /\ opc' = "idle"
            /\ effect' = FALSE
            /\ sent' = <<>>
       ELSE /\ effect' = TRUE
            /\ IF transport_type = "local"
               THEN /\ sent' = <<[chunks |-> <<[id |-> 0, len |-> n]>>,
                                  fmt |-> "float32", rate |-> r]>>
                    /\ op_ret' = "returned"
                    /\ opc' = "idle"
               ELSE /\ sent' = <<[chunks |-> <<[id |-> 0, len |-> n]>>,
                                  fmt |-> "int16", rate |-> r]>>
                    /\ op_ret' = "pending"
                    /\ opc' = "play_capture"
    /\ UNCHANGED <<transport_type, lifeVars, inVars>>
    /\ cancel_requested' = FALSE
    /\ UNCHANGED taskVars
    /\ UNCHANGED staleVars
    /\ UNCHANGED duplexVars
    /\ UNCHANGED vadVars
    /\ UNCHANGED toolVars

\* capture_frame of play returns, or raises and play propagates it
PlayCaptureDone(outcome) ==
    /\ opc = "play_capture"
    /\ opc' = "idle"
    /\ op_ret' = outcome
    /\ UNCHANGED <<op, call_connected, effect, sent>>
    /\ UNCHANGED <<transport_type, lifeVars, inVars, recVars, psVars>>
    /\ UNCHANGED cancelVars
    /\ UNCHANGED taskVars
    /\ UNCHANGED staleVars
    /\ UNCHANGED duplexVars
    /\ UNCHANGED vadVars
    /\ UNCHANGED toolVars

\* ---- play_streaming ----

\* play_streaming(audio_generator, config, on_chunk) up to the first
\* `async for` step; the generator holds m chunks
PlayStreamingCall(m, observer, r) ==
    /\ opc = "idle"
    /\ op' = "play_streaming"
    /\ call_connected' = connected
    /\ sent' = <<>>
    /\ effect' = FALSE
    /\ RecLocalsClear
    /\ rate' = r
    /\ yielded' = <<>>
    /\ seen' = <<>>
    /\ all_samples' = <<>>
    /\ IF NotConnected("play_streaming")
       THEN /\ op_ret' = "not_connected"
            /\ opc' = "idle"
            /\ gen' = 0
            /\ has_on_chunk' = FALSE
       ELSE /\ op_ret' = "pending"
            /\ opc' = "ps_next"
            /\ gen' = m
            /\ has_on_chunk' = observer
    /\ UNCHANGED <<transport_type, lifeVars, inVars>>
    /\ cancel_requested' = FALSE
    /\ UNCHANGED taskVars
    /\ UNCHANGED staleVars
    /\ UNCHANGED duplexVars
    /\ UNCHANGED vadVars
    /\ UNCHANGED toolVars

\* the generator yields its next chunk: on_chunk is called, then LiveKit hands
\* the chunk to self.audio_source.capture_frame (an AttributeError when a
\* disconnect has set audio_source to None) and Local appends it to all_samples
PsYield(n) ==
    LET chunk == [id |-> Len(yielded) + 1, len |-> n]
    IN  /\ opc = "ps_next"
        /\ gen > 0
        /\ gen' = gen - 1
        /\ yielded' = Append(yielded, chunk)
        /\ seen' = IF has_on_chunk THEN Append(seen, chunk) ELSE seen
        /\ IF transport_type = "livekit" /\ audio_source = Nil
           THEN /\ opc' = "idle"
                /\ op_ret' = "raised"
                /\ UNCHANGED <<sent, effect, all_samples>>
           ELSE IF transport_type = "livekit"
           THEN /\ sent' = Append(sent, [chunks |-> <<chunk>>, fmt |-> "int16",
                                             rate |-> rate])
                /\ effect' = TRUE
                /\ opc' = "ps_capture"
                /\ UNCHANGED <<op_ret, all_samples>>
           ELSE /\ all_samples' = Append(all_samples, chunk)
                /\ UNCHANGED <<sent, effect, opc, op_ret>>
        /\ UNCHANGED <<op, call_connected, has_on_chunk>>
        /\ UNCHANGED <<transport_type, lifeVars, inVars, recVars>>
        /\ UNCHANGED cancelVars
        /\ UNCHANGED taskVars
        /\ UNCHANGED staleVars
        /\ UNCHANGED duplexVars
        /\ UNCHANGED vadVars
        /\ UNCHANGED toolVars

\* capture_frame of play_streaming returns: back to the generator
PsCaptureDone ==
    /\ opc = "ps_capture"
    /\ opc' = "ps_next"
    /\ UNCHANGED <<op, op_ret, call_connected, effect, sent>>
    /\ UNCHANGED <<transport_type, lifeVars, inVars, recVars, psVars>>
    /\ UNCHANGED cancelVars
    /\ UNCHANGED taskVars
    /\ UNCHANGED staleVars
    /\ UNCHANGED duplexVars
    /\ UNCHANGED vadVars
    /\ UNCHANGED toolVars

\* capture_frame of play_streaming raises: play_streaming propagates it
PsCaptureRaise ==
    /\ opc = "ps_capture"
    /\ opc' = "idle"
    /\ op_ret' = "raised"
    /\ UNCHANGED <<op, call_connected, effect, sent>>
    /\ UNCHANGED <<transport_type, lifeVars, inVars, recVars, psVars>>
    /\ UNCHANGED cancelVars
    /\ UNCHANGED taskVars
    /\ UNCHANGED staleVars
    /\ UNCHANGED duplexVars
    /\ UNCHANGED vadVars
    /\ UNCHANGED toolVars

\* the generator raises instead of yielding or ending: play_streaming
\* propagates it (Local has played nothing yet)
PsGenRaise ==
    /\ opc = "ps_next"
    /\ opc' = "idle"
    /\ op_ret' = "raised"
    /\ UNCHANGED <<op, call_connected, effect, sent>>
    /\ UNCHANGED <<transport_type, lifeVars, inVars, recVars, psVars>>
    /\ UNCHANGED cancelVars
    /\ UNCHANGED taskVars
    /\ UNCHANGED staleVars
    /\ UNCHANGED duplexVars
    /\ UNCHANGED vadVars
    /\ UNCHANGED toolVars

\* the generator ends: LiveKit returns; Local plays the concatenation of
\* all_samples, if any, in one blocking call and returns
PsEnd ==
    /\ opc = "ps_next"
    /\ gen = 0
    /\ opc' = "idle"
    /\ op_ret' = "returned"
    /\ IF transport_type = "local" /\ all_samples # <<>>
       THEN /\ sent' = <<[chunks |-> all_samples, fmt |-> "float32",
                              rate |-> rate]>>
            /\ effect' = TRUE
       ELSE UNCHANGED <<sent, effect>>
    /\ UNCHANGED <<op, call_connected>>
    /\ UNCHANGED <<transport_type, lifeVars, inVars, recVars, psVars>>
    /\ UNCHANGED cancelVars
    /\ UNCHANGED taskVars
    /\ UNCHANGED staleVars
    /\ UNCHANGED duplexVars
    /\ UNCHANGED vadVars
    /\ UNCHANGED toolVars

\* the caller sets its cancellation condition while the stream is playing;
\* play_streaming takes no such argument and reads no such state
RequestCancel ==
    /\ opc \in {"ps_next", "ps_capture"}
    /\ ~cancel_requested
    /\ cancel_requested' = TRUE
    /\ UNCHANGED <<transport_type, lifeVars, inVars, callVars, recVars, psVars>>
    /\ UNCHANGED taskVars
    /\ UNCHANGED staleVars
    /\ UNCHANGED duplexVars
    /\ UNCHANGED vadVars
    /\ UNCHANGED toolVars

\* the fields after __init__, no operation called yet
TransportFresh ==
    /\ connected = FALSE
    /\ room = Nil
    /\ audio_source = Nil
    /\ audio_track = Nil
    /\ joined = {}
    /\ rooms_made = 0
    /\ cpc = "idle"
    /\ ctl_result = "none"
    /\ remote_audio_queue = <<>>
    /\ frames_in = 0
    /\ opc = "idle"
    /\ op = "none"
    /\ op_ret = "none"
    /\ call_connected = FALSE
    /\ effect = FALSE
    /\ sent = <<>>
    /\ duration = 0
    /\ rate = 0
    /\ samples_needed = 0
    /\ collected_samples = <<>>
    /\ collected_count = 0
    /\ clock = start_time
    /\ wait_from = start_time
    /\ recorded = [ids |-> <<>>, n |-> 0]
    /\ avail = 0
    /\ late = 0
    /\ gen = 0
    /\ yielded = <<>>
    /\ has_on_chunk = FALSE
    /\ seen = <<>>
    /\ all_samples = <<>>
    /\ cancel_requested = FALSE
    /\ receivers = EmptyBag
    /\ taken = 0

\* a new transport of either class
TransportInit ==
    /\ transport_type \in {"local", "livekit"}
    /\ TransportFresh

\* a transport nobody uses
TransportIdle ==
    /\ transport_type = "local"
    /\ TransportFresh

\* the life cycle and the outbound operations
TransportNext ==
    \/ ConnectTokenRaise
    \/ ConnectBegin
    \/ JoinOk
    \/ JoinRaise
    \/ PublishOk
    \/ PublishRaise
    \/ LocalConnect
    \/ LocalConnectRaise
    \/ DisconnectBegin
    \/ LeaveDone
    \/ LocalDisconnect
    \/ \E n \in BufferLens, r \in ConfigRates : PlayCall(n, r)
    \/ \E outcome \in {"returned", "raised"} : PlayCaptureDone(outcome)
    \/ \E m \in StreamLens, observer \in BOOLEAN, r \in ConfigRates :
           PlayStreamingCall(m, observer, r)
    \/ \E n \in BufferLens : PsYield(n)
    \/ PsCaptureDone
    \/ PsCaptureRaise
    \/ PsGenRaise
    \/ PsEnd
    \/ RequestCancel

\* the life cycle, the receive tasks and the inbound operations; the outbound
\* operations read and write none of the inbound state, and one transport runs
\* one operation at a time
InboundNext ==
    \/ ConnectTokenRaise
    \/ ConnectBegin
    \/ JoinOk
    \/ JoinRaise
    \/ PublishOk
    \/ PublishRaise
    \/ LocalConnect
    \/ LocalConnectRaise
    \/ DisconnectBegin
    \/ LeaveDone
    \/ LocalDisconnect
    \/ \E r \in Rooms : TrackSubscribed(r)
    \/ \E r \in Rooms : InboundBad(r)
    \/ \E n \in FrameSamples : Inbound(n)
    \/ \E d \in RecordDurations, r \in SampleRates : RecordCall(d, r)
    \/ RecTop
    \/ RecTick
    \/ RecGet
    \/ RecTimeout
    \/ VadCall
    \/ VadBodyGet
    \/ VadBodyReturn

\* ------------------------------------------------------------------------
\* Part IV : the global transport and ensure_connected
\*
\* Several tasks of one event loop call ensure_connected; a task runs from one
\* await to the next without interruption.  No task calls disconnect.
\* ------------------------------------------------------------------------

\* get_audio_transport: the object _transport refers to on return
GetAudioTransport(current, made) == IF current = Nil THEN made + 1 ELSE current

\* the effect of get_audio_transport on the global and on the count of objects
GetAudioTransportStep ==
    /\ g_transport' = GetAudioTransport(g_transport, instances_made)
    /\ instances_made' = IF g_transport = Nil THEN instances_made + 1
                         ELSE instances_made

\* ensure_connected up to its first await: get_audio_transport, the test of
\* is_connected, and connect up to `await self.room.connect(...)` (LiveKit) or
\* the whole of connect (Local)
EnsureCall(t) ==
    /\ epc[t] = "idle"
    /\ GetAudioTransportStep
    /\ IF g_connected
       THEN /\ e_ret' = [e_ret EXCEPT ![t] = "returned"]
            /\ e_got' = [e_got EXCEPT ![t] = g_transport']
            /\ UNCHANGED <<g_connected, g_room, g_rooms_made, epc, e_room>>
       ELSE IF config_transport = "local"
       THEN /\ g_connected' = TRUE
            /\ e_ret' = [e_ret EXCEPT ![t] = "returned"]
            /\ e_got' = [e_got EXCEPT ![t] = g_transport']
            /\ UNCHANGED <<g_room, g_rooms_made, epc, e_room>>
       ELSE /\ g_rooms_made < MaxConnects
            /\ g_rooms_made' = g_rooms_made + 1
            /\ g_room' = g_rooms_made + 1
            /\ e_room' = [e_room EXCEPT ![t] = g_rooms_made + 1]
            /\ epc' = [epc EXCEPT ![t] = "joining"]
            /\ e_ret' = [e_ret EXCEPT ![t] = "pending"]
            /\ e_got' = [e_got EXCEPT ![t] = Nil]
            /\ UNCHANGED g_connected
    /\ UNCHANGED <<config_transport, g_joined, e_failed>>
    /\ UNCHANGED duplexVars
    /\ UNCHANGED vadVars
    /\ UNCHANGED transportVars
    /\ UNCHANGED approvalVars

\* ensure_connected on a transport that is not connected, and connect raises
\* before its first await (the import or the token, sd._initialize)
EnsureCallRaise(t) ==
    /\ epc[t] = "idle"
    /\ ~g_connected
    /\ GetAudioTransportStep
    /\ e_ret' = [e_ret EXCEPT ![t] = "raised"]
    /\ e_got' = [e_got EXCEPT ![t] = Nil]
    /\ e_failed' = TRUE
    /\ UNCHANGED <<config_transport, g_connected, g_room, g_joined, g_rooms_made,
                   epc, e_room>>
    /\ UNCHANGED duplexVars
    /\ UNCHANGED vadVars
    /\ UNCHANGED transportVars
    /\ UNCHANGED approvalVars

\* room.connect of the task's Room returns: the Room is joined, the source and
\* the track are created, publish_track is awaited
EnsureJoinOk(t) ==
    /\ epc[t] = "joining"
    /\ g_joined' = g_joined \cup {e_room[t]}
    /\ epc' = [epc EXCEPT ![t] = "publishing"]
    /\ UNCHANGED <<config_transport, g_transport, instances_made, g_connected,
                   g_room, g_rooms_made, e_room, e_ret, e_got, e_failed>>
    /\ UNCHANGED duplexVars
    /\ UNCHANGED vadVars
    /\ UNCHANGED transportVars
    /\ UNCHANGED approvalVars

\* room.connect or publish_track raises: connect and ensure_connected
\* propagate it
EnsureAwaitRaise(t) ==
    /\ epc[t] \in {"joining", "publishing"}
    /\ epc' = [epc EXCEPT ![t] = "idle"]
    /\ e_ret' = [e_ret EXCEPT ![t] = "raised"]
    /\ e_failed' = TRUE
    /\ UNCHANGED <<config_transport, g_transport, instances_made, g_connected,
                   g_room, g_joined, g_rooms_made, e_room, e_got>>
    /\ UNCHANGED duplexVars
    /\ UNCHANGED vadVars
    /\ UNCHANGED transportVars
    /\ UNCHANGED approvalVars

\* publish_track returns: `self._connected = True`, and ensure_connected
\* returns the transport
EnsurePublishOk(t) ==
    /\ epc[t] = "publishing"
    /\ g_connected' = TRUE
    /\ epc' = [epc EXCEPT ![t] = "idle"]
    /\ e_ret' = [e_ret EXCEPT ![t] = "returned"]
    /\ e_got' = [e_got EXCEPT ![t] = g_transport]
    /\ UNCHANGED <<config_transport, g_transport, instances_made, g_room, g_joined,
                   g_rooms_made, e_room, e_failed>>
    /\ UNCHANGED duplexVars
    /\ UNCHANGED vadVars
    /\ UNCHANGED transportVars
    /\ UNCHANGED approvalVars

\* the module as imported, no call made yet
EnsureFresh ==
    /\ g_transport = Nil
    /\ instances_made = 0
    /\ g_connected = FALSE
    /\ g_room = Nil
    /\ g_joined = {}
    /\ g_rooms_made = 0
    /\ epc = [t \in Callers |-> "idle"]
    /\ e_room = [t \in Callers |-> Nil]
    /\ e_ret = [t \in Callers |-> "none"]
    /\ e_got = [t \in Callers |-> Nil]
    /\ e_failed = FALSE

EnsureInit ==
    /\ config_transport \in {"livekit", "local"}
    /\ EnsureFresh

EnsureIdle ==
    /\ config_transport = "local"
    /\ EnsureFresh

EnsureNext ==
    \/ \E t \in Callers : EnsureCall(t)
    \/ \E t \in Callers : EnsureCallRaise(t)
    \/ \E t \in Callers : EnsureJoinOk(t)
    \/ \E t \in Callers : EnsureAwaitRaise(t)
    \/ \E t \in Callers : EnsurePublishOk(t)

\* ------------------------------------------------------------------------
\* Part V : the voice_approval command
\*
\* A text is a sequence of characters; a letter with a diacritic is written as
\* one character with an ASCII name.  One run of the command: the synchronous
\* code up to the voice question, the answer, the tmux subprocesses.
\* ------------------------------------------------------------------------

\* the list `affirmative` of parse_approval_response, lines 43-50
Affirmative ==
    << <<"t", "a", "k">>,
       <<"y", "e", "s">>,
       <<"y", "e", "a", "h">>,
       <<"y", "e", "p">>,
       <<"s", "u", "r", "e">>,
       <<"o", "k">>,
       <<"o", "k", "a", "y">>,
       <<"g", "o", " ", "a", "h", "e", "a", "d">>,
       <<"d", "o", " ", "i", "t">>,
       <<"p", "r", "o", "c", "e", "e", "d">>,
       <<"z", "a", "t", "w", "i", "e", "r", "d", "z_acute">>,
       <<"z", "r", "o_acute", "b", " ", "t", "o">>,
       <<"d", "a", "w", "a", "j">>,
       <<"j", "a", "s", "n", "e">>,
       <<"o", "c", "z", "y", "w", "i", "s_acute", "c", "i", "e">>,
       <<"p", "e", "w", "n", "i", "e">>,
       <<"n", "o">>,
       <<"d", "o", "b", "r", "a">>,
       <<"g", "i", "t">>,
       <<"s", "p", "o", "k", "o">>,
       <<"a", "p", "p", "r", "o", "v", "e">>,
       <<"a", "p", "p", "r", "o", "v", "e", "d">>,
       <<"c", "o", "n", "f", "i", "r", "m">>,
       <<"c", "o", "n", "f", "i", "r", "m", "e", "d">>,
       <<"a", "c", "c", "e", "p", "t">> >>

\* the list `negative` of parse_approval_response, lines 51-55
Negative ==
    << <<"n", "i", "e">>,
       <<"n", "o">>,
       <<"n", "o", "p", "e">>,
       <<"d", "o", "n", "'", "t">>,
       <<"s", "t", "o", "p">>,
       <<"c", "a", "n", "c", "e", "l">>,
       <<"a", "b", "o", "r", "t">>,
       <<"n", "i", "e", " ", "r", "o_acute", "b">>,
       <<"a", "n", "u", "l", "u", "j">>,
       <<"p", "r", "z", "e", "r", "w", "i", "j">>,
       <<"o", "d", "m", "o_acute", "w">>,
       <<"o", "d", "r", "z", "u", "c_acute">>,
       <<"d", "e", "n", "y">>,
       <<"d", "e", "n", "i", "e", "d">>,
       <<"r", "e", "j", "e", "c", "t">>,
       <<"r", "e", "j", "e", "c", "t", "e", "d">>,
       <<"r", "e", "f", "u", "s", "e">> >>

\* further texts the speech service may return
OtherTexts ==
    { <<"N", "o">>,
       <<"N", "O", "P", "E">>,
       <<" ", "n", "i", "e", " ">>,
       <<"T", "a", "k">>,
       <<"m", "a", "y", "b", "e">>,
       <<>>,
       <<"i", " ", "d", "o", "n", "'", "t", " ", "k", "n", "o", "w">>,
       <<"h", "m", "m">>,
       <<"n", "o", "t", " ", "n", "o", "w">>,
       <<"n", "i", "e", " ", "w", "i", "e", "m">> }

\* the elements of a list
Range(list) == {list[k] : k \in 1..Len(list)}

\* the texts the speech service returns in the model
Texts == Range(Affirmative) \cup Range(Negative) \cup OtherTexts

\* str.lower on the characters of the texts
Lower(c) ==
    CASE c = "N" -> "n"
      [] c = "O" -> "o"
      [] c = "P" -> "p"
      [] c = "E" -> "e"
      [] c = "T" -> "t"
      [] OTHER -> c

\* str.strip: the text from its first to its last character that is no blank
Strip(text) ==
    LET inked == {k \in 1..Len(text) : text[k] # " "}
    IN  IF inked = {} THEN <<>>
        ELSE SubSeq(text, CHOOSE k \in inked : \A j \in inked : k <= j,
                          CHOOSE k \in inked : \A j \in inked : k >= j)

\* `word in text_lower`: word occurs in the text as a run of characters
Contains(word, text) ==
    \E k \in 1..(Len(text) - Len(word) + 1) :
        SubSeq(text, k, k + Len(word) - 1) = word

\* parse_approval_response, lines 31-65: the affirmative list is tried first
ParseApprovalResponse(text) ==
    LET text_lower == Strip([k \in 1..Len(text) |-> Lower(text[k])])
    IN  IF \E word \in Range(Affirmative) : Contains(word, text_lower) THEN "True"
        ELSE IF \E word \in Range(Negative) : Contains(word, text_lower) THEN "False"
        ELSE "None"

\* `response = "y" if approved else "n"` of send_tmux_response
TmuxKey(answer) == IF answer = "True" THEN "y" ELSE "n"

\* the command from the value of approved on, lines 277-295, up to the first
\* tmux subprocess: where it stops
AfterAnswer(answer) ==
    IF answer = "None" THEN [pc |-> "done", path |-> "no_clear_response"]
    ELSE IF tmux_session /\ ~dry_run THEN [pc |-> "tmux", path |-> "tmux"]
    ELSE IF dry_run THEN [pc |-> "done", path |-> "dry_run"]
    ELSE [pc |-> "done", path |-> "no_session_given"]

\* voice_approval from its first line to `asyncio.run(...)`, lines 234-266,
\* and with --auto-approve on to the tmux subprocess.  stdin_kind: a terminal;
\* text that is no JSON; JSON that is no object (data.get raises); an object
\* of another notification_type; a permission_prompt with or without message.
CommandStart ==
    LET fromStdin == ~opt_test /\ stdin_kind # "tty"
        early == IF fromStdin /\ stdin_kind = "bad_json" THEN "bad_json"
                 ELSE IF fromStdin /\ stdin_kind = "not_object" THEN "raised"
                 ELSE IF fromStdin /\ stdin_kind = "other_type" THEN "not_permission_prompt"
                 ELSE IF ~opt_test /\ stdin_kind \in {"tty", "prompt_no_message"}
                 THEN "no_message"
                 ELSE "none"
        next == AfterAnswer("True")
    IN  /\ apc = "start"
        /\ message' = IF early = "none" THEN "given" ELSE ""
        /\ IF early # "none"
           THEN apc' = "done" /\ exit_path' = early /\ approved' = approved
           ELSE IF auto_approve
           THEN apc' = next.pc /\ exit_path' = next.path /\ approved' = "True"
           ELSE apc' = "asking" /\ exit_path' = exit_path /\ approved' = approved
        /\ UNCHANGED <<opt_test, stdin_kind, auto_approve, tmux_session, dry_run,
                       heard_text, sent_key>>
        /\ UNCHANGED duplexVars
        /\ UNCHANGED vadVars
        /\ UNCHANGED transportVars
        /\ UNCHANGED ensureVars

\* asyncio.run(wait_for(ask_for_approval(...))) ends: the speech service
\* returned a text, which is parsed; or ask_for_approval returned None (no
\* speech, no text, the converse subprocess failed); or wait_for timed out; or
\* an exception left ask_for_approval.  Then lines 277-289.
AskDone(outcome, text) ==
    LET answer == IF outcome = "text" THEN ParseApprovalResponse(text) ELSE "None"
        next == AfterAnswer(answer)
    IN  /\ apc = "asking"
        /\ outcome # "text" => text = <<>>
        /\ heard_text' = text
        /\ IF outcome = "raised"
           THEN apc' = "done" /\ exit_path' = "raised" /\ approved' = approved
           ELSE /\ approved' = answer
                /\ apc' = next.pc
                /\ exit_path' = IF outcome = "timeout" THEN "timeout" ELSE next.path
        /\ UNCHANGED <<opt_test, stdin_kind, auto_approve, tmux_session, dry_run,
                       message, sent_key>>
        /\ UNCHANGED duplexVars
        /\ UNCHANGED vadVars
        /\ UNCHANGED transportVars
        /\ UNCHANGED ensureVars

\* send_tmux_response: `tmux has-session` fails or tmux is missing (nothing is
\* sent), send-keys fails, or send-keys hands the key to the session
TmuxDone(outcome) ==
    /\ apc = "tmux"
    /\ sent_key' = IF outcome = "sent" THEN TmuxKey(approved) ELSE sent_key
    /\ apc' = "done"
    /\ exit_path' = outcome
    /\ UNCHANGED <<opt_test, stdin_kind, auto_approve, tmux_session, dry_run,
                   message, approved, heard_text>>
    /\ UNCHANGED duplexVars
    /\ UNCHANGED vadVars
    /\ UNCHANGED transportVars
    /\ UNCHANGED ensureVars

\* the locals of a run that has not begun
ApprovalFresh ==
    /\ apc = "start"
    /\ message = ""
    /\ approved = "unset"
    /\ heard_text = <<>>
    /\ sent_key = "none"
    /\ exit_path = "none"

\* the command line and the standard input
ApprovalInit ==
    /\ opt_test \in BOOLEAN
    /\ stdin_kind \in {"tty", "bad_json", "not_object", "other_type", "prompt",
                       "prompt_no_message"}
    /\ auto_approve \in BOOLEAN
    /\ tmux_session \in BOOLEAN
    /\ dry_run \in BOOLEAN
    /\ ApprovalFresh

ApprovalIdle ==
    /\ opt_test = FALSE
    /\ stdin_kind = "tty"
    /\ auto_approve = FALSE
    /\ tmux_session = FALSE
    /\ dry_run = FALSE
    /\ ApprovalFresh

ApprovalNext ==
    \/ CommandStart
    \/ \E outcome \in {"text", "nothing", "timeout", "raised"}, text \in Texts :
          AskDone(outcome, text)
    \/ \E outcome \in {"sent", "no_session", "send_failed"} : TmuxDone(outcome)

\* ------------------------------------------------------------------------
\* Specifications
\* ------------------------------------------------------------------------

\* DuplexVoice: the receive task and the main task
Init == DuplexInit /\ VadIdle /\ TransportIdle /\ EnsureIdle /\ ApprovalIdle

Next == DuplexNext

Spec == Init /\ [][Next]_vars

\* DuplexVoice: the receive task and a main task that speaks and beeps
SpecBeep == Init /\ [][BeepNext]_vars

\* one call of record_with_vad
InitVad == VadInit /\ DuplexInit /\ TransportIdle /\ EnsureIdle /\ ApprovalIdle

SpecVad == InitVad /\ [][VadNext]_vars

\* one transport instance used by two tasks: a control task and a task that
\* plays (SpecTransport) or records (SpecInbound)
InitTransport == TransportInit /\ DuplexInit /\ VadIdle /\ EnsureIdle /\ ApprovalIdle

SpecTransport == InitTransport /\ [][TransportNext]_vars

SpecInbound == InitTransport /\ [][InboundNext]_vars

\* the global transport used by the tasks that call ensure_connected
InitEnsure == EnsureInit /\ ApprovalIdle /\ DuplexInit /\ VadIdle /\ TransportIdle

SpecEnsure == InitEnsure /\ [][EnsureNext]_vars

\* one run of the voice_approval command
InitApproval ==
    /\ ApprovalInit
    /\ config_transport = "local"
    /\ EnsureFresh
    /\ DuplexInit
    /\ VadIdle
    /\ TransportIdle

SpecApproval == InitApproval /\ [][ApprovalNext]_vars

\* ------------------------------------------------------------------------
\* Properties of DuplexVoice (checked under Spec)
\* ------------------------------------------------------------------------

\* speak has returned through the end of _send_audio and nothing was called since
SpeakSent == pc = "idle" /\ lastOp = "speak" /\ path = "sent"

\* C1: while speak is in flight, once consecutive above-threshold inbound frames
\* have summed to INTERRUPT_SAMPLES, was_interrupted is true; and in a state where
\* was_interrupted is true no step hands a further chunk to the audio source.
C1_InterruptStopsPlayback ==
    /\ []((InSpeak /\ reached) => was_interrupted)
    /\ [][was_interrupted => Len(delivered') <= Len(delivered)]_vars

\* C1 witness: a speak that was cut short after its first chunk by a loud run
C1_Witness ==
    /\ SpeakSent
    /\ reached
    /\ ret = "false"
    /\ Len(delivered) > 0
    /\ Len(delivered) < NChunks(samples_len)

\* C2: while speak is in flight, was_interrupted is only set when one run of
\* consecutive above-threshold frames has reached INTERRUPT_SAMPLES; every frame at
\* or below the threshold leaves the running sample count at 0.
C2_NoInterruptFromShortBursts ==
    /\ []((InSpeak /\ was_interrupted) => reached)
    /\ [][(arrived' = arrived + 1 /\ audio_buffer' # <<>>
            /\ Last(audio_buffer').level <= SPEECH_THRESHOLD)
           => speech_detected_samples' = 0]_vars

\* C2 witness: bursts that together exceed INTERRUPT_SAMPLES, separated by a frame
\* at or below the threshold, during a speak that is not interrupted
C2_Witness ==
    /\ InSpeak
    /\ loudTotal >= INTERRUPT_SAMPLES
    /\ run > 0
    /\ ~reached
    /\ ~was_interrupted

\* C3 (as claimed): speak returns true exactly when every chunk of the utterance
\* buffer was delivered, false exactly when sending stopped before the last chunk.
C3_CompletionFlagExact ==
    (SpeakSent /\ samples_len > 0)
        => (ret = "true" <=> Len(delivered) = NChunks(samples_len))

\* C4: the step that begins speak leaves is_speaking true, was_interrupted false
\* and the running sample count 0 whatever they were before, and a speak that
\* returns false had a full run of loud frames of its own.
C4_SpeakResets ==
    /\ [][(pc = "idle" /\ pc' = "tts")
           => (is_speaking' /\ ~was_interrupted' /\ speech_detected_samples' = 0)]_vars
    /\ []((SpeakSent /\ ret = "false") => reached)

\* C4 witness: a speak that played in full right after one that was interrupted
C4_Witness ==
    /\ SpeakSent
    /\ prevInterrupted
    /\ ret = "true"
    /\ samples_len > 0
    /\ Len(delivered) = NChunks(samples_len)

\* C5 (as claimed): is_speaking is false whenever no speak call is in flight.
C5_IdleWhenNoSpeak == ~InSpeak => ~is_speaking

\* C6 (as claimed): the audio handed to transcription by the listen that follows a
\* speak contains every frame received while that speak was in flight.
C6_SpokenOverAudioTranscribed ==
    (pc = "stt" /\ lastOp = "listen_after_speak") => speakFrames \subseteq Ids(heard)

\* C7: every inbound frame is appended once, at the end of audio_buffer, whatever
\* is_speaking is, and is scored once in the same step; both see arrival order.
C7_FanOut ==
    /\ [][arrived' = arrived + 1
           => /\ Len(audio_buffer') = Len(audio_buffer) + 1
              /\ SubSeq(audio_buffer', 1, Len(audio_buffer)) = audio_buffer
              /\ Last(audio_buffer').id = arrived'
              /\ scored' = Append(scored, arrived')]_vars
    /\ [](scored = [k \in 1..arrived |-> k])
    /\ [](\A k \in 1..Len(audio_buffer) :
             audio_buffer[k].id = arrived - Len(audio_buffer) + k)

\* C7 witness: the buffer holds a frame received while idle and one received
\* while speaking
C7_Witness ==
    \E a, b \in Ids(audio_buffer) : a \in speakFrames /\ b \notin speakFrames /\ a = b + 1

\* ------------------------------------------------------------------------
\* Properties of record_with_vad (checked under SpecVad)
\* ------------------------------------------------------------------------

\* the step takes a chunk from the queue (VadGet)
GetStep == Len(audio_chunks') = Len(audio_chunks) + 1

\* C8 (as claimed): record_with_vad returns no later than max_duration plus one
\* chunk duration after it started, whatever the chunk arrivals.
C8_WithinOneChunkOfCeiling ==
    vpc = "done" => now - recording_start <= max_duration + CHUNK_TICKS

\* C8 (amended): record_with_vad returns no later than max_duration plus the 0.1 s
\* wait of one queue read, and a loop iteration that starts at or after
\* max_duration returns whatever the silence state is.
C8_WithinOneWaitOfCeiling ==
    /\ [](now - recording_start <= max_duration + TIMEOUT_TICKS)
    /\ [][(vpc = "top" /\ vpc' # "top" /\ now - recording_start >= max_duration)
           => vpc' = "done"]_vars

\* C8 witness: no chunk arrived and the call returned later than one chunk
\* duration after max_duration
C8_Witness ==
    /\ vpc = "done"
    /\ stop_reason = "max"
    /\ produced = 0
    /\ max_duration > 0
    /\ now - recording_start > max_duration + CHUNK_TICKS

\* C9 (as claimed): with a callback, speech_detected is returned true exactly when
\* the callback classified some chunk as speech.
C9_FlagIsCallbackVerdict ==
    (vpc = "done" /\ has_callback) => (result.flag <=> speechSeen)

\* C9 (amended): with a callback, speech_detected is returned true exactly when
\* the callback classified some chunk as speech or some chunk was taken from the
\* queue during the grace period.
C9_FlagIsVerdictOrGrace ==
    (vpc = "done" /\ has_callback) => (result.flag <=> (speechSeen \/ graceSeen))

\* C9 witness: true is returned although every classified chunk was silence
C9_Witness ==
    /\ vpc = "done"
    /\ has_callback
    /\ result.flag
    /\ graceSeen
    /\ ~speechSeen
    /\ span_len > 0

\* C10 (as claimed): the threshold is tested on every chunk classified as silence,
\* the first of a span included: the call stops at any silent chunk at which the
\* span has lasted silence_threshold.
C10_StopsAtEverySilentChunk ==
    [][(GetStep /\ Classified /\ ~Last(audio_chunks').speech
        /\ SilenceReached(now, span_start', silence_threshold))
       => vpc' = "done"]_vars

\* C10 (amended): at a chunk classified as silence the call stops exactly when the
\* chunk is not the first of its span and the span has lasted silence_threshold;
\* silence_start is the start of the current unbroken span (None after speech);
\* a stop at a wait timeout happens only on LiveKit with the span that old.
C10_StopsAtLaterSilentChunk ==
    /\ [][(GetStep /\ Classified /\ ~Last(audio_chunks').speech)
           => (vpc' = "done"
               <=> (span_len >= 1
                    /\ SilenceReached(now, span_start, silence_threshold)))]_vars
    /\ [](silence_start = span_start)
    /\ [](stop_reason = "silence_chunk"
            => span_len >= 2 /\ SilenceReached(now, span_start, silence_threshold))
    /\ [](stop_reason = "silence_timeout"
            => /\ variant = "livekit"
               /\ span_len >= 1
               /\ SilenceReached(now, span_start, silence_threshold))

\* C10 witness: speech, then a span of silence that reaches a positive threshold
C10_Witness ==
    /\ stop_reason = "silence_chunk"
    /\ speechSeen
    /\ silence_threshold > 0

\* the queue read of the running call has just timed out (VadTimeout is enabled)
ReadTimedOut == vpc = "wait" /\ queue = <<>> /\ now - wait_start >= TIMEOUT_TICKS

\* C11: when min_duration <= max_duration, record_with_vad does not stop on
\* silence before min_duration has elapsed; a chunk received before min_duration
\* has elapsed is not classified: it does not stop the call and neither starts nor
\* extends a silence span, whatever the callback would return for it.
C11_NoSilenceStopInGrace ==
    /\ [][(min_duration <= max_duration /\ GetStep
           /\ now - recording_start < min_duration)
          => /\ vpc' # "done"
             /\ silence_start' = silence_start
             /\ silence_start' = NoTime]_vars
    /\ []((min_duration <= max_duration
           /\ stop_reason \in {"silence_chunk", "silence_timeout"})
          => /\ now - recording_start >= min_duration
             /\ silence_start - recording_start >= min_duration)

\* C11 witness: the first chunk came in the grace period with a callback that
\* would have called it silence, and the call stopped on silence later
C11_Witness ==
    /\ stop_reason = "silence_chunk"
    /\ min_duration > 0
    /\ min_duration <= max_duration
    /\ graceSeen
    /\ ~audio_chunks[1].speech

\* C12: given the same chunk arrivals, gaps, verdicts and clock readings the two
\* transports stop at the same step with the same flag and chunks.  The two loops
\* are one code except for the branch taken when a queue read times out, so they
\* agree on a run exactly when, in every state where a read has timed out, both
\* take the same branch, or the transport that continues stops at the head of the
\* loop at the same clock reading.
C12_SameStepOnBothTransports ==
    ReadTimedOut
    => \/ TimeoutStopsOn("local") <=> TimeoutStopsOn("livekit")
       \/ CeilingReached(now - recording_start, max_duration)

\* C13: without a vad_callback the call stops only at the ceiling, so not before
\* max_duration has elapsed, and the flag it returns is true exactly when at least
\* one chunk was received.
C13_FailOpenWithoutCallback ==
    ~has_callback
    => /\ silence_start = NoTime
       /\ audio_chunks # <<>> => speech_detected
       /\ vpc = "done"
          => /\ stop_reason = "max"
             /\ now - recording_start >= max_duration
             /\ result.flag <=> (audio_chunks # <<>>)
             /\ result.samples = audio_chunks

\* C13 witness: a call without callback has returned true on chunks that a
\* callback would all have called silence, with a silence threshold of zero
C13_Witness ==
    /\ vpc = "done"
    /\ ~has_callback
    /\ max_duration > 0
    /\ silence_threshold = 0
    /\ Len(audio_chunks) >= 2
    /\ \A k \in 1..Len(audio_chunks) : ~audio_chunks[k].speech
    /\ result.flag

\* ------------------------------------------------------------------------
\* Properties of the transport (checked under SpecTransport)
\* ------------------------------------------------------------------------

\* the fields of a LiveKit transport agree: the Room it refers to is joined and
\* the source and the track were created for that Room
Consistent ==
    /\ room # Nil
    /\ room \in joined
    /\ audio_source = room
    /\ audio_track = room

\* nothing is held: the state after __init__ and after a disconnect
Released ==
    /\ ~connected
    /\ room = Nil
    /\ audio_source = Nil
    /\ audio_track = Nil

\* C14: on both transports an operation called while the transport is not
\* connected fails with the not-connected error and has no effect: it takes no
\* frame from the inbound side and hands none to the sink.
C14_NotConnectedRejected ==
    (op # "none" /\ ~call_connected)
    => (op_ret = "not_connected" /\ ~effect /\ sent = <<>>)

\* C15: a connect that fails on a transport that was not connected leaves
\* is_connected false, and a connect on a connected transport, successful or
\* not, does not corrupt it: between two calls a transport that reports connected
\* refers to a joined Room and to the source and track made for that Room.
C15_ConnectKeepsStateSound ==
    /\ [][(~connected /\ ctl_result' = "connect_raised") => ~connected']_vars
    /\ []((transport_type = "livekit" /\ connected /\ cpc = "idle")
          => Consistent)

\* C16: a transport holds at most one joined Room, and between two calls every
\* joined Room is the one self.room refers to.
C16_AtMostOneLiveRoom ==
    /\ Cardinality(joined) <= 1
    /\ cpc = "idle" => joined \subseteq {room}

C18_ReturnsOnDisconnect ==
    [][(opc = "rec_top" /\ ~connected /\ ctl_result = "disconnect_ok")
       => opc' # "rec_wait"]_vars

C20_DeliversWhatIsYielded ==
    (op = "play_streaming" /\ call_connected /\ opc = "idle"
     /\ op_ret \in {"returned", "raised"})
    => /\ Flatten(sent) = yielded
       /\ has_on_chunk => seen = yielded

\* C21: once the cancellation condition has been set while play_streaming is in
\* flight, the call hands no further frame to the sink, on either transport.
C21_CancelStopsForwarding ==
    [][(op = "play_streaming" /\ opc # "idle" /\ call_connected
        /\ cancel_requested)
       => sent' = sent]_vars

\* C22: an error raised while one inbound frame is handled does not end the
\* receive loop: while its Room stays joined, every running receive task keeps
\* running, so the frames that follow the bad one are still enqueued.
C22_ReceiveLoopSurvives ==
    [][\A r \in joined' : CopiesIn(r, receivers') >= CopiesIn(r, receivers)]_vars

\* C23: a non-success status of the TTS or STT service is reported to the
\* caller: speak does not return what it returns for a fully played utterance,
\* and listen does not return what it returns when nothing was said.
C23_ServiceFailureReported ==
    /\ (pc = "idle" /\ path = "tts_error") => ret # SpeakResult(FALSE)
    /\ (pc = "idle" /\ path = "stt_error") => ret # "empty"

\* the frames of a result are consecutive frames of the arrival order
InArrivalOrder(ids) ==
    \A k \in 1..(Len(ids) - 1) : ids[k + 1] = ids[k] + 1

\* C24: what record and record_with_vad return on a LiveKit transport is made of
\* inbound frames in the order they were enqueued, each once, with no frame
\* between the first and the last one left out (frames are numbered as they
\* arrive).
C24_FramesInArrivalOrder ==
    (transport_type = "livekit" /\ op \in {"record", "record_with_vad"}
     /\ op_ret = "returned")
    => /\ InArrivalOrder(recorded.ids)
       /\ \A k \in 1..Len(recorded.ids) : recorded.ids[k] \in 1..frames_in

\* C24 witness: a record call has returned samples taken from two frames
C24_Witness ==
    /\ transport_type = "livekit"
    /\ op = "record"
    /\ op_ret = "returned"
    /\ Len(recorded.ids) = 2
    /\ recorded.n > 1

\* C25: at every moment at most one receive task feeds the inbound queue of a
\* transport, whatever track_subscribed events and connect calls have occurred.
C25_OneReceiveTask ==
    BagCardinality(receivers) <= 1

\* C26: every frame a LiveKit transport hands to its audio source has the fixed
\* chunk length, a shorter tail being zero-padded to it; so whatever that length
\* is, the frames of one play or play_streaming call all have the same length.
C26_FramesOfOneLength ==
    transport_type = "livekit"
    => \A j, k \in 1..Len(sent) : SumLen(sent[j].chunks) = SumLen(sent[k].chunks)

\* the data samples carried by a sequence of chunks
RECURSIVE DataLen(_)
DataLen(chunks) ==
    IF chunks = <<>> THEN 0 ELSE Head(chunks).n + DataLen(Tail(chunks))

\* C27: an uninterrupted send of a buffer of L samples sends ceil(L / CHUNK_SIZE)
\* chunks of CHUNK_SIZE samples; chunk k carries the buffer from (k-1)*CHUNK_SIZE
\* on, so the concatenation starts with the L samples of the buffer, and
\* everything after them (in the last chunk only) is zero padding.
C27_ChunksReassemble ==
    LET L == samples_len
        N == Len(delivered)
    IN  (SpeakSent /\ ~was_interrupted)
        => /\ N = (IF L % CHUNK_SIZE = 0 THEN L \div CHUNK_SIZE
                   ELSE L \div CHUNK_SIZE + 1)
           /\ \A k \in 1..N :
                 /\ delivered[k].off = (k - 1) * CHUNK_SIZE
                 /\ delivered[k].n >= 1
                 /\ delivered[k].pad >= 0
                 /\ delivered[k].n + delivered[k].pad = CHUNK_SIZE
                 /\ k < N => delivered[k].pad = 0
           /\ DataLen(delivered) = L
           /\ N > 0 => delivered[N].pad = N * CHUNK_SIZE - L

\* C27 witness: a buffer whose length is no multiple of CHUNK_SIZE was sent to
\* the end in two chunks, the second one padded
C27_Witness ==
    /\ SpeakSent
    /\ ~was_interrupted
    /\ Len(delivered) = 2
    /\ delivered[2].pad > 0

\* C28: every frame a LiveKit transport hands to its audio source carries the
\* sample rate the audio source was created with.
C28_FrameRateIsSourceRate ==
    transport_type = "livekit"
    => \A k \in 1..Len(sent) : sent[k].rate = SOURCE_RATE

\* C29: the inbound queue has a fixed capacity: however many frames arrive while
\* nothing consumes them, the queue never holds all of them (of the MaxInbound
\* frames that arrive here it always holds fewer).
C29_QueueBounded ==
    Len(remote_audio_queue) < MaxInbound

\* C30: when no chunk at all has arrived before max_duration, record_with_vad
\* returns, at the ceiling, the empty sample sequence and speech_detected =
\* false, with or without a VAD callback.
C30_NothingArrived ==
    (vpc = "done" /\ produced = 0)
    => /\ result = [samples |-> <<>>, flag |-> FALSE]
       /\ stop_reason = "max"

\* C30 witness: a call given a VAD callback has waited through a whole queue
\* timeout, received nothing, and returned
C30_Witness ==
    /\ vpc = "done"
    /\ produced = 0
    /\ has_callback
    /\ max_duration > TIMEOUT_TICKS
    /\ now - recording_start >= max_duration

\* C32: in every state the other task can observe, a false was_interrupted goes
\* with a consecutive speech sample count below INTERRUPT_SAMPLES, whatever the
\* interleaving of frame scoring and the reset at the start of speak.
C32_FlagAndCountAgree ==
    ~was_interrupted => speech_detected_samples < INTERRUPT_SAMPLES

\* C32 witness: a speak that was interrupted has been followed by a second
\* speak, whose reset cleared the flag and the count, and a loud frame has been
\* scored since
C32_Witness ==
    /\ InSpeak
    /\ prevInterrupted
    /\ ~was_interrupted
    /\ speech_detected_samples > 0

\* C33: was_interrupted is latched: a step takes it from true to false only when
\* that step is the beginning of a speak call.
C33_Latched ==
    [][(was_interrupted /\ ~was_interrupted') => (pc = "idle" /\ pc' = "tts")]_vars

\* C33 witness: the flag was set during a speak, speak has returned, a later
\* frame has been scored (the count is back to zero), and the flag is still set
C33_Witness ==
    /\ was_interrupted
    /\ pc = "idle"
    /\ path = "sent"
    /\ ~is_speaking
    /\ speech_detected_samples = 0

\* C35: when was_interrupted has been set while the TTS response was awaited
\* (the flag is set and no chunk of the call has been handed over yet), no step
\* of the call hands over a chunk, and when speak returns a value it returns
\* false.
C35_InterruptBeforeAudio ==
    [][(InSpeak /\ was_interrupted /\ delivered = <<>>)
       => /\ delivered' = <<>>
          /\ (pc' = "idle" /\ ret' # "raised") => ret' = SpeakResult(TRUE)]_vars

\* ------------------------------------------------------------------------
\* Properties of beep (checked under SpecBeep)
\* ------------------------------------------------------------------------

RecordingOp ==
    /\ transport_type = "livekit"
    /\ op \in {"record", "record_with_vad"}
    /\ op_ret \in {"pending", "returned"}

\* C36: every frame put on the inbound queue is still queued or was taken by
\* a record or record_with_vad call, and the queue holds, in arrival order,
\* exactly the frames after the ones taken, through every connect and
\* disconnect: nothing flushes it.  So the frames a call takes begin with the
\* oldest frame no earlier call took, whenever that frame arrived.  A frame
\* taken by record has left the queue whole, and record returns the samples
\* taken up to samples_needed: what exceeds it is in no later result.
C36_QueueNeverFlushed ==
    /\ Len(remote_audio_queue) + taken = frames_in
    /\ \A k \in 1..Len(remote_audio_queue) : remote_audio_queue[k].id = taken + k
    /\ RecordingOp
       => \A k \in 1..Len(collected_samples) :
              collected_samples[k].id = taken - Len(collected_samples) + k
    /\ (RecordingOp /\ op_ret = "returned")
       => /\ recorded.ids
               = [k \in 1..Len(collected_samples) |-> collected_samples[k].id]
          /\ op = "record" => recorded.n = Min(collected_count, samples_needed)

\* C36 witness: the transport has left its first Room and joined a second one,
\* and holds a frame on its queue while no call is in flight; the record call
\* before took the frames that had arrived until then, the first frame first,
\* and samples of the last frame it took were cut off
C36_Witness ==
    /\ transport_type = "livekit"
    /\ rooms_made = 2
    /\ joined = {2}
    /\ room = 2
    /\ opc = "idle"
    /\ op = "record"
    /\ op_ret = "returned"
    /\ recorded.ids # <<>>
    /\ recorded.ids[1] = 1
    /\ recorded.n > 0
    /\ collected_count > recorded.n
    /\ remote_audio_queue # <<>>

\* ------------------------------------------------------------------------
\* Properties of ensure_connected (checked under SpecEnsure)
\* ------------------------------------------------------------------------

\* C37 (as claimed): every call gets the same transport object, and as long as
\* no connect has raised and nobody disconnects, the calls of ensure_connected
\* made so far, concurrent ones included, have joined at most one Room.
C37_JoinsRoomOnce ==
    /\ instances_made <= 1
    /\ \A t \in Callers : e_got[t] \in {Nil, g_transport}
    /\ ~e_failed => Cardinality(g_joined) <= 1

\* ------------------------------------------------------------------------
\* Properties of the voice_approval command (checked under SpecApproval)
\* ------------------------------------------------------------------------

\* the run has asked by voice and holds the parsed answer
Parsed == approved # "unset" /\ ~auto_approve

\* C31 (as claimed): a response that is one of the listed negative words is
\* parsed as False, one that is one of the listed affirmative words as True, and
\* a text that contains no listed word as None.
C31_ListedWordsParsed ==
    Parsed
    => /\ heard_text \in Range(Negative) => approved = "False"
       /\ heard_text \in Range(Affirmative) => approved = "True"
       /\ (\A word \in Range(Affirmative) \cup Range(Negative) :
               ~Contains(word, Strip([k \in 1..Len(heard_text) |-> Lower(heard_text[k])])))
          => approved = "None"

\* C38 (as claimed), for a run without --auto-approve: a key reaches tmux only
\* when a session was given, dry-run is off, the message came from --test or
\* from a permission_prompt, and the parsed answer is True or False; the key is
\* "y" only for True, and never when the answer heard is a listed denial.
C38_KeyOnlyForClearAnswer ==
    (sent_key # "none" /\ ~auto_approve)
    => /\ tmux_session
       /\ ~dry_run
       /\ opt_test \/ stdin_kind = "prompt"
       /\ approved \in {"True", "False"}
       /\ sent_key = TmuxKey(approved)
       /\ sent_key = "y" => heard_text \notin Range(Negative)

====
